---- MODULE Spec2Model ----
(***************************************************************************)
(* Model of the code-review MCP server (src/src/index.ts): the handlers of  *)
(* its three tools, collect-context, diff-insights and run-heuristics; the *)
(* three git invocations of gatherDiffInsights, the parsers of the         *)
(* name-status and numstat outputs, mergeDiffData, attachPatchSnippets /   *)
(* splitUnifiedDiff; gatherGitStatus / parseBranchHeader;                  *)
(* gatherRecentCommits; evaluateHeuristics.                                *)
(*                                                                         *)
(* Text is modelled at the level the code reads it:                        *)
(*   - a string is a sequence of one-character strings;                    *)
(*   - a tool output is the sequence of its newline-terminated lines;      *)
(*   - a name-status / numstat line is the sequence of its tab-separated   *)
(*     fields (what line.trim().split('\t') returns);                      *)
(*   - a line of the unified patch is a record: a `diff --git a/X b/Y`     *)
(*     header carries X and Y, any other line carries its text;            *)
(*   - a line of `git status --short --branch` is the string itself, and a *)
(*     line of `git log` is the sequence of its tab-separated fields.      *)
(* The empty sequence stands for undefined / the empty string (both are    *)
(* falsy in every test the code makes on them); a nullable count is <<>>   *)
(* for null and <<n>> for the number n.                                    *)
(***************************************************************************)
EXTENDS Integers, Sequences, FiniteSets, TLC

VARIABLES
    repo,        \* what git prints for the repository state: nameStatus, numstat,
                 \* patch, status, log
    tool,        \* the tool whose handler serves the running request
    pc,          \* the await the running handler is suspended on
    args,        \* normalized arguments of the running request
    nameStatus,  \* gatherDiffInsights: stdout of the --name-status invocation
    files,       \* gatherDiffInsights: the merged DiffFileChange list
    totals,      \* gatherDiffInsights: the reduce accumulator
    context,     \* collect-context: the RepoContext under construction
    invoked,     \* the operations the running request awaited, with their outcomes
    response,    \* what the handler returned for the running request
    history,     \* responses of the earlier, completed requests
    suspended    \* the other requests in flight: their handlers' locals

vars == <<repo, tool, pc, args, nameStatus, files, totals, context, invoked,
          response, history, suspended>>

----------------------------------------------------------------------------
(* Bounds of the model and constants of the program *)

\* longest name-status / numstat output, in lines
MaxLines == 2
\* most per-file segments in a unified patch
MaxSegs == 2
\* how many times the same request is issued against the unchanged repository
MaxCalls == 2
\* how many requests are in flight together
MaxRequests == 2
\* z.number().int().min(10) of maxPatchLines
MinPatchLines == 10

----------------------------------------------------------------------------
(* Strings *)

Null == <<>>
Undefined == <<>>

Last(s) == s[Len(s)]

Front(s) == SubSeq(s, 1, Len(s) - 1)

IsWhitespace(c) == c \in {" ", "\t", "\n"}

RECURSIVE TrimStart(_)
TrimStart(s) ==
    IF s # <<>> /\ IsWhitespace(Head(s)) THEN TrimStart(Tail(s)) ELSE s

RECURSIVE TrimEnd(_)
TrimEnd(s) ==
    IF s # <<>> /\ IsWhitespace(Last(s)) THEN TrimEnd(Front(s)) ELSE s

Trim(s) == TrimEnd(TrimStart(s))

\* ICU root collation order of the characters the model uses: punctuation
\* before digits before letters
CollationChars ==
    <<" ", "-", ".", "/", "\\", "=", ">", "0", "1", "2", "3",
      "a", "b", "c", "e", "f", "g", "i", "n", "o", "s", "t">>

CollationRank(c) == CHOOSE i \in 1..Len(CollationChars) : CollationChars[i] = c

RECURSIVE LocaleCompare(_, _)
LocaleCompare(x, y) ==
    IF x = <<>> /\ y = <<>> THEN 0
    ELSE IF x = <<>> THEN -1
    ELSE IF y = <<>> THEN 1
    ELSE IF CollationRank(Head(x)) < CollationRank(Head(y)) THEN -1
    ELSE IF CollationRank(Head(x)) > CollationRank(Head(y)) THEN 1
    ELSE LocaleCompare(Tail(x), Tail(y))

----------------------------------------------------------------------------
(* normalizePathForComparison: p.replace(/\\/g, '/') then path.posix.normalize *)

ReplaceBackslashes(p) == [i \in 1..Len(p) |-> IF p[i] = "\\" THEN "/" ELSE p[i]]

\* the '/'-separated segments of p
RECURSIVE SplitSegments(_, _)
SplitSegments(p, cur) ==
    IF p = <<>> THEN <<cur>>
    ELSE IF Head(p) = "/" THEN <<cur>> \o SplitSegments(Tail(p), <<>>)
    ELSE SplitSegments(Tail(p), Append(cur, Head(p)))

\* normalizeString: drops empty and '.' segments, resolves '..'
RECURSIVE ResolveSegments(_, _, _)
ResolveSegments(segs, acc, allowAboveRoot) ==
    IF segs = <<>> THEN acc
    ELSE LET s == Head(segs) IN
         IF s = <<>> \/ s = <<".">> THEN ResolveSegments(Tail(segs), acc, allowAboveRoot)
         ELSE IF s = <<".", ".">> THEN
             IF acc # <<>> /\ Last(acc) # <<".", ".">>
             THEN ResolveSegments(Tail(segs), Front(acc), allowAboveRoot)
             ELSE IF allowAboveRoot
             THEN ResolveSegments(Tail(segs), Append(acc, s), allowAboveRoot)
             ELSE ResolveSegments(Tail(segs), acc, allowAboveRoot)
         ELSE ResolveSegments(Tail(segs), Append(acc, s), allowAboveRoot)

RECURSIVE JoinSegments(_)
JoinSegments(segs) ==
    IF segs = <<>> THEN <<>>
    ELSE IF Len(segs) = 1 THEN Head(segs)
    ELSE Head(segs) \o <<"/">> \o JoinSegments(Tail(segs))

PosixNormalize(p) ==
    IF p = <<>> THEN <<".">>
    ELSE LET isAbsolute == Head(p) = "/"
             trailingSeparator == Last(p) = "/"
             body == JoinSegments(ResolveSegments(SplitSegments(p, <<>>), <<>>, ~isAbsolute))
         IN  IF body = <<>>
             THEN IF isAbsolute THEN <<"/">>
                  ELSE IF trailingSeparator THEN <<".", "/">> ELSE <<".">>
             ELSE (IF isAbsolute THEN <<"/">> ELSE <<>>)
                  \o body
                  \o (IF trailingSeparator THEN <<"/">> ELSE <<>>)

normalizePathForComparison(p) == PosixNormalize(ReplaceBackslashes(p))

----------------------------------------------------------------------------
(* JavaScript Map: insertion-ordered, set() on a present key keeps its place *)

MapHas(m, k) == \E i \in 1..Len(m) : m[i].key = k

MapGet(m, k) == m[CHOOSE i \in 1..Len(m) : m[i].key = k].value

MapSet(m, k, v) ==
    IF MapHas(m, k)
    THEN [i \in 1..Len(m) |-> IF m[i].key = k THEN [key |-> k, value |-> v] ELSE m[i]]
    ELSE Append(m, [key |-> k, value |-> v])

MapKeys(m) == {m[i].key : i \in 1..Len(m)}

----------------------------------------------------------------------------
(* parseNameStatus *)

\* raw.split('\n') of newline-terminated lines: the lines and a final empty string
SplitLines(raw) == Append(raw, <<>>)

\* !line.trim(): the line has no field with a character in it
IsBlankLine(line) == \A i \in 1..Len(line) : Trim(line[i]) = <<>>

Field(line, i) == IF i <= Len(line) THEN line[i] ELSE Undefined

StartsWith(s, c) == s # <<>> /\ Head(s) = c

RECURSIVE parseNameStatusLines(_, _)
parseNameStatusLines(lines, map) ==
    IF lines = <<>> THEN map
    ELSE LET line == Head(lines)
             type == Field(line, 1)
         IN  IF IsBlankLine(line) \/ type = <<>>
             THEN parseNameStatusLines(Tail(lines), map)
             ELSE IF StartsWith(type, "R") \/ StartsWith(type, "C")
             THEN LET previousPath == Field(line, 2)
                      newPath == IF Len(line) >= 3 THEN line[3] ELSE previousPath
                  IN  IF newPath = <<>>
                      THEN parseNameStatusLines(Tail(lines), map)
                      ELSE parseNameStatusLines(Tail(lines),
                               MapSet(map, newPath,
                                      [changeType |-> type, previousPath |-> previousPath]))
             ELSE LET targetPath == Field(line, 2)
                  IN  IF targetPath = <<>>
                      THEN parseNameStatusLines(Tail(lines), map)
                      ELSE parseNameStatusLines(Tail(lines),
                               MapSet(map, targetPath,
                                      [changeType |-> type, previousPath |-> Undefined]))

parseNameStatus(raw) == parseNameStatusLines(SplitLines(raw), <<>>)

----------------------------------------------------------------------------
(* parseNumstat *)

DigitChars == <<"0", "1", "2", "3", "4", "5", "6", "7", "8", "9">>

IsDigit(c) == \E i \in 1..10 : DigitChars[i] = c

DigitValue(c) == (CHOOSE i \in 1..10 : DigitChars[i] = c) - 1

\* the value of the leading digits of s, after acc
RECURSIVE LeadingDigits(_, _)
LeadingDigits(s, acc) ==
    IF s # <<>> /\ IsDigit(Head(s))
    THEN LeadingDigits(Tail(s), 10 * acc + DigitValue(Head(s)))
    ELSE acc

\* Number.parseInt(s, 10) || 0: NaN (no leading digit) and 0 both give 0
ParseIntOrZero(s) ==
    LET t == TrimStart(s)
        negative == StartsWith(t, "-")
        digits == IF StartsWith(t, "-") \/ StartsWith(t, "+") THEN Tail(t) ELSE t
    IN  IF negative THEN 0 - LeadingDigits(digits, 0) ELSE LeadingDigits(digits, 0)

ParseCount(raw) == IF raw = <<"-">> THEN Null ELSE <<ParseIntOrZero(raw)>>

RECURSIVE JoinTabs(_)
JoinTabs(fields) ==
    IF fields = <<>> THEN <<>>
    ELSE IF Len(fields) = 1 THEN Head(fields)
    ELSE Head(fields) \o <<"\t">> \o JoinTabs(Tail(fields))

RECURSIVE parseNumstatLines(_)
parseNumstatLines(lines) ==
    IF lines = <<>> THEN <<>>
    ELSE LET parts == Head(lines)
             rest == IF Len(parts) > 2 THEN SubSeq(parts, 3, Len(parts)) ELSE <<>>
             path == IF rest = <<>> THEN Undefined ELSE Last(rest)
             previousPath == IF Len(rest) > 1 THEN JoinTabs(Front(rest)) ELSE Undefined
         IN  IF IsBlankLine(parts) \/ path = <<>>
             THEN parseNumstatLines(Tail(lines))
             ELSE <<[additions |-> ParseCount(parts[1]),
                     deletions |-> ParseCount(parts[2]),
                     path |-> path,
                     previousPath |-> previousPath]>>
                  \o parseNumstatLines(Tail(lines))

parseNumstat(raw) == parseNumstatLines(SplitLines(raw))

----------------------------------------------------------------------------
(* mergeDiffData *)

NoPatch == <<>>

\* inferChangeType with the test of additions left out: 'A' whenever deletions
\* is null
inferChangeTypeAddedWhenNoDeletions(additions, deletions) ==
    IF additions = <<0>> /\ deletions = <<0>> THEN <<"M">>
    ELSE IF deletions = Null THEN <<"A">>
    ELSE <<"M">>

inferChangeType(additions, deletions) ==
    IF additions = <<0>> /\ deletions = <<0>> THEN <<"M">>
    ELSE IF additions # Null /\ deletions = Null THEN <<"A">>
    ELSE <<"M">>

\* mergeNumstatEntries with `&&` for `||` in isBinary
RECURSIVE mergeNumstatEntriesBothNull(_, _, _)
mergeNumstatEntriesBothNull(entries, changeTypeMap, fileMap) ==
    IF entries = <<>> THEN fileMap
    ELSE LET e == Head(entries)
             known == MapHas(changeTypeMap, e.path)
             changeInfo == MapGet(changeTypeMap, e.path)
         IN  mergeNumstatEntriesBothNull(Tail(entries), changeTypeMap,
                 MapSet(fileMap, e.path,
                     [path |-> e.path,
                      changeType |-> IF known THEN changeInfo.changeType
                                     ELSE inferChangeType(e.additions, e.deletions),
                      additions |-> e.additions,
                      deletions |-> e.deletions,
                      isBinary |-> (e.additions = Null /\ e.deletions = Null),
                      previousPath |-> IF known /\ changeInfo.previousPath # Undefined
                                       THEN changeInfo.previousPath
                                       ELSE e.previousPath,
                      patch |-> NoPatch]))

\* first loop: one record per numstat entry, keyed by the entry's raw path
RECURSIVE mergeNumstatEntries(_, _, _)
mergeNumstatEntries(entries, changeTypeMap, fileMap) ==
    IF entries = <<>> THEN fileMap
    ELSE LET e == Head(entries)
             known == MapHas(changeTypeMap, e.path)
             changeInfo == MapGet(changeTypeMap, e.path)
         IN  mergeNumstatEntries(Tail(entries), changeTypeMap,
                 MapSet(fileMap, e.path,
                     [path |-> e.path,
                      changeType |-> IF known THEN changeInfo.changeType
                                     ELSE inferChangeType(e.additions, e.deletions),
                      additions |-> e.additions,
                      deletions |-> e.deletions,
                      isBinary |-> (e.additions = Null \/ e.deletions = Null),
                      previousPath |-> IF known /\ changeInfo.previousPath # Undefined
                                       THEN changeInfo.previousPath
                                       ELSE e.previousPath,
                      patch |-> NoPatch]))

\* second loop: the name-status paths that have no numstat entry
RECURSIVE mergeNameStatusOnly(_, _)
mergeNameStatusOnly(entries, fileMap) ==
    IF entries = <<>> THEN fileMap
    ELSE LET path == Head(entries).key
             info == Head(entries).value
         IN  IF MapHas(fileMap, path)
             THEN mergeNameStatusOnly(Tail(entries), fileMap)
             ELSE mergeNameStatusOnly(Tail(entries),
                      MapSet(fileMap, path,
                          [path |-> path,
                           changeType |-> info.changeType,
                           additions |-> <<0>>,
                           deletions |-> <<0>>,
                           isBinary |-> TRUE,
                           previousPath |-> info.previousPath,
                           patch |-> NoPatch]))

MapValues(m) == [i \in 1..Len(m) |-> m[i].value]

\* Array.prototype.sort with (a, b) => a.path.localeCompare(b.path): stable
RECURSIVE InsertSorted(_, _)
InsertSorted(sorted, f) ==
    IF sorted = <<>> THEN <<f>>
    ELSE IF LocaleCompare(f.path, Head(sorted).path) < 0 THEN <<f>> \o sorted
    ELSE <<Head(sorted)>> \o InsertSorted(Tail(sorted), f)

\* SortByPath without the sort: the records in the order of the Map
SortByPathKeepingOrder(fs, sorted) == sorted \o fs

RECURSIVE SortByPath(_, _)
SortByPath(fs, sorted) ==
    IF fs = <<>> THEN sorted
    ELSE SortByPath(Tail(fs), InsertSorted(sorted, Head(fs)))

\* Filter comparing the raw path with the normalized filter entries
RECURSIVE FilterByRawPath(_, _)
FilterByRawPath(fs, keep) ==
    IF fs = <<>> THEN <<>>
    ELSE IF Head(fs).path \in keep
    THEN <<Head(fs)>> \o FilterByRawPath(Tail(fs), keep)
    ELSE FilterByRawPath(Tail(fs), keep)

RECURSIVE Filter(_, _)
Filter(fs, keep) ==
    IF fs = <<>> THEN <<>>
    ELSE IF normalizePathForComparison(Head(fs).path) \in keep
    THEN <<Head(fs)>> \o Filter(Tail(fs), keep)
    ELSE Filter(Tail(fs), keep)

mergeDiffData(changeTypeMap, numstatEntries, a) ==
    LET fileMap == mergeNameStatusOnly(changeTypeMap,
                       mergeNumstatEntries(numstatEntries, changeTypeMap, <<>>))
        sorted == SortByPath(MapValues(fileMap), <<>>)
    IN  IF Len(a.paths) > 0
        THEN Filter(sorted, {normalizePathForComparison(a.paths[i]) : i \in 1..Len(a.paths)})
        ELSE sorted

----------------------------------------------------------------------------
(* splitUnifiedDiff and attachPatchSnippets *)

HeaderLine(old, new) == [hdr |-> TRUE, old |-> old, new |-> new, text |-> <<>>]

TextLine(text) == [hdr |-> FALSE, old |-> <<>>, new |-> <<>>, text |-> text]

\* the line `... (truncated)` (the code writes the ellipsis as one character)
TruncationMarker == TextLine(<<"...", " ", "(", "t", "r", "u", "n", "c", "a", "t", "e", "d", ")">>)

\* rawPatch.trim() is empty: no header line, and no other line with a character in it
IsBlankPatch(rawPatch) ==
    \A i \in 1..Len(rawPatch) : ~rawPatch[i].hdr /\ Trim(rawPatch[i].text) = <<>>

\* Group 3 of the regular expression, ([\s\S]*?)(?=^diff --git |\s*$) under the
\* flags gm: the lazy body grows from the character after the header's newline
\* until the lookahead holds, and with the m flag `$` holds before every newline.
\* So the body ends at the next header, if that is the next line, and otherwise
\* before the trailing whitespace of the first line after the header.
CapturedBody(rawPatch, i) ==
    IF i < Len(rawPatch) /\ ~rawPatch[i + 1].hdr
    THEN TrimEnd(rawPatch[i + 1].text)
    ELSE <<>>

\* one result per header line: the regular expression matches at every line
\* that starts with `diff --git a/`
RECURSIVE splitFrom(_, _)
splitFrom(rawPatch, i) ==
    IF i > Len(rawPatch) THEN <<>>
    ELSE IF rawPatch[i].hdr
    THEN <<[keyPath |-> rawPatch[i].new,
            patch |-> <<HeaderLine(rawPatch[i].old, rawPatch[i].new),
                        TextLine(TrimStart(CapturedBody(rawPatch, i)))>>]>>
         \o splitFrom(rawPatch, i + 1)
    ELSE splitFrom(rawPatch, i + 1)

splitUnifiedDiff(rawPatch) == splitFrom(rawPatch, 1)

\* MatchesSegment without the test of previousPath
MatchesSegmentByPathOnly(f, key) == normalizePathForComparison(f.path) = key

\* the predicate of files.find(...)
MatchesSegment(f, key) ==
    \/ normalizePathForComparison(f.path) = key
    \/ f.previousPath # <<>> /\ normalizePathForComparison(f.previousPath) = key

\* files.find: the index of the first record that matches, 0 when none does
FindFile(fs, key) ==
    IF \E i \in 1..Len(fs) : MatchesSegment(fs[i], key)
    THEN CHOOSE i \in 1..Len(fs) :
             /\ MatchesSegment(fs[i], key)
             /\ \A j \in 1..(i - 1) : ~MatchesSegment(fs[j], key)
    ELSE 0

\* the text attached for one segment
Snippet(patch, maxLines) ==
    IF Len(patch) > maxLines
    THEN Append(SubSeq(patch, 1, maxLines), TruncationMarker)
    ELSE patch

\* attachSegments making a record of its own for a segment that matches none
RECURSIVE attachSegmentsAddingUnmatched(_, _, _)
attachSegmentsAddingUnmatched(fs, segments, maxLines) ==
    IF segments = <<>> THEN fs
    ELSE LET segment == Head(segments)
             at == FindFile(fs, normalizePathForComparison(segment.keyPath))
         IN  IF at = 0
             THEN attachSegmentsAddingUnmatched(
                      Append(fs, [path |-> segment.keyPath,
                                  changeType |-> <<"M">>,
                                  additions |-> <<0>>,
                                  deletions |-> <<0>>,
                                  isBinary |-> FALSE,
                                  previousPath |-> Undefined,
                                  patch |-> Snippet(segment.patch, maxLines)]),
                      Tail(segments), maxLines)
             ELSE attachSegmentsAddingUnmatched(
                      [fs EXCEPT ![at].patch = Snippet(segment.patch, maxLines)],
                      Tail(segments), maxLines)

RECURSIVE attachSegments(_, _, _)
attachSegments(fs, segments, maxLines) ==
    IF segments = <<>> THEN fs
    ELSE LET segment == Head(segments)
             at == FindFile(fs, normalizePathForComparison(segment.keyPath))
         IN  IF at = 0
             THEN attachSegments(fs, Tail(segments), maxLines)
             ELSE attachSegments(
                      [fs EXCEPT ![at].patch = Snippet(segment.patch, maxLines)],
                      Tail(segments), maxLines)

attachPatchSnippets(fs, rawPatch, maxLines) ==
    IF IsBlankPatch(rawPatch) THEN fs
    ELSE attachSegments(fs, splitUnifiedDiff(rawPatch), maxLines)

----------------------------------------------------------------------------
(* gatherDiffInsights: the reduce over files, and the value returned *)

\* sumTotals adding the deletions to acc.additions
RECURSIVE sumTotalsDeletionsAsAdditions(_, _)
sumTotalsDeletionsAsAdditions(fs, acc) ==
    IF fs = <<>> THEN acc
    ELSE LET file == Head(fs)
         IN  sumTotalsDeletionsAsAdditions(Tail(fs),
                 [additions |-> IF file.deletions # Null
                                THEN acc.additions + file.deletions[1]
                                ELSE acc.additions,
                  deletions |-> IF file.deletions # Null
                                THEN acc.deletions + file.deletions[1]
                                ELSE acc.deletions])

\* sumTotals counting a null count as one line
RECURSIVE sumTotalsNullAsOne(_, _)
sumTotalsNullAsOne(fs, acc) ==
    IF fs = <<>> THEN acc
    ELSE LET file == Head(fs)
         IN  sumTotalsNullAsOne(Tail(fs),
                 [additions |-> IF file.additions # Null
                                THEN acc.additions + file.additions[1]
                                ELSE acc.additions + 1,
                  deletions |-> IF file.deletions # Null
                                THEN acc.deletions + file.deletions[1]
                                ELSE acc.deletions + 1])

\* sumTotals with the accumulator kept outside the call: it goes on from the
\* totals of the request before
RECURSIVE sumTotalsSharedAccumulator(_, _)
sumTotalsSharedAccumulator(fs, acc) ==
    IF fs = <<>>
    THEN [additions |-> acc.additions + totals.additions,
          deletions |-> acc.deletions + totals.deletions]
    ELSE LET file == Head(fs)
         IN  sumTotalsSharedAccumulator(Tail(fs),
                 [additions |-> IF file.additions # Null
                                THEN acc.additions + file.additions[1]
                                ELSE acc.additions,
                  deletions |-> IF file.deletions # Null
                                THEN acc.deletions + file.deletions[1]
                                ELSE acc.deletions])

RECURSIVE sumTotals(_, _)
sumTotals(fs, acc) ==
    IF fs = <<>> THEN acc
    ELSE LET file == Head(fs)
         IN  sumTotals(Tail(fs),
                 [additions |-> IF file.additions # Null
                                THEN acc.additions + file.additions[1]
                                ELSE acc.additions,
                  deletions |-> IF file.deletions # Null
                                THEN acc.deletions + file.deletions[1]
                                ELSE acc.deletions])

ZeroTotals == [additions |-> 0, deletions |-> 0]

DiffInsights(fs, t) ==
    [fileCount |-> Len(fs),
     totalAdditions |-> t.additions,
     totalDeletions |-> t.deletions,
     files |-> fs]

----------------------------------------------------------------------------
(* runGitDiff: `git diff ... -- <paths>` prints the lines of the changed      *)
(* files the path list selects: a file named by an entry, or lying in a       *)
(* directory named by an entry.                                               *)

IsPrefix(p, q) == Len(p) <= Len(q) /\ SubSeq(q, 1, Len(p)) = p

\* git brings a pathspec to its normal form (`./a` is `a`) before it matches
PathspecSelects(spec, path) ==
    \/ PosixNormalize(spec) = path
    \/ IsPrefix(Append(PosixNormalize(spec), "/"), path)

Selected(paths, path) ==
    Len(paths) = 0 \/ \E i \in 1..Len(paths) : PathspecSelects(paths[i], path)

RECURSIVE SelectLines(_, _)
SelectLines(lines, paths) ==
    IF lines = <<>> THEN <<>>
    ELSE IF Selected(paths, Last(Head(lines)))
    THEN <<Head(lines)>> \o SelectLines(Tail(lines), paths)
    ELSE SelectLines(Tail(lines), paths)

\* the segments (header and following lines) of the selected files
RECURSIVE SelectPatch(_, _, _)
SelectPatch(lines, paths, keep) ==
    IF lines = <<>> THEN <<>>
    ELSE LET line == Head(lines)
             k == IF line.hdr THEN Selected(paths, line.new) ELSE keep
         IN  IF k THEN <<line>> \o SelectPatch(Tail(lines), paths, k)
             ELSE SelectPatch(Tail(lines), paths, k)

runGitDiffNameStatus(a) == SelectLines(repo.nameStatus, a.paths)

runGitDiffNumstat(a) == SelectLines(repo.numstat, a.paths)

runGitDiffPatch(a) == SelectPatch(repo.patch, a.paths, TRUE)

----------------------------------------------------------------------------
(* More of String.prototype, on strings as sequences of characters *)

\* s.slice(from)
Slice(s, from) == IF from >= Len(s) THEN <<>> ELSE SubSeq(s, from + 1, Len(s))

\* s.slice(0, to)
SliceTo(s, to) == IF to >= Len(s) THEN s ELSE SubSeq(s, 1, to)

\* s.startsWith(prefix)
HasPrefix(s, prefix) == IsPrefix(prefix, s)

\* s.endsWith(suffix)
EndsWith(s, suffix) ==
    Len(suffix) <= Len(s) /\ SubSeq(s, Len(s) - Len(suffix) + 1, Len(s)) = suffix

OccursAt(s, sub, i) == i + Len(sub) - 1 <= Len(s) /\ SubSeq(s, i, i + Len(sub) - 1) = sub

\* s.includes(sub)
Includes(s, sub) == \E i \in 1..Len(s) : OccursAt(s, sub, i)

\* s.indexOf(sub) + 1: the place of the first occurrence, 0 when there is none
IndexOf(s, sub) ==
    IF Includes(s, sub)
    THEN CHOOSE i \in 1..Len(s) :
             /\ OccursAt(s, sub, i)
             /\ \A j \in 1..(i - 1) : ~OccursAt(s, sub, j)
    ELSE 0

\* s.lastIndexOf(sub) + 1
LastIndexOf(s, sub) ==
    IF Includes(s, sub)
    THEN CHOOSE i \in 1..Len(s) :
             /\ OccursAt(s, sub, i)
             /\ \A j \in (i + 1)..Len(s) : ~OccursAt(s, sub, j)
    ELSE 0

\* s.split(sep), sep not empty
RECURSIVE Split(_, _)
Split(s, sep) ==
    LET at == IndexOf(s, sep)
    IN  IF at = 0 THEN <<s>>
        ELSE <<SubSeq(s, 1, at - 1)>> \o Split(Slice(s, at + Len(sep) - 1), sep)

\* s.replace(sub, ''): the first occurrence only
RemoveFirst(s, sub) ==
    LET at == IndexOf(s, sub)
    IN  IF at = 0 THEN s
        ELSE SubSeq(s, 1, at - 1) \o Slice(s, at + Len(sub) - 1)

UpperCaseChars == <<"S", "T">>

LowerCaseChars == <<"s", "t">>

\* s.toLowerCase(), over the capitals the model uses
ToLowerCase(s) ==
    [i \in 1..Len(s) |->
        IF \E k \in 1..Len(UpperCaseChars) : UpperCaseChars[k] = s[i]
        THEN LowerCaseChars[CHOOSE k \in 1..Len(UpperCaseChars) : UpperCaseChars[k] = s[i]]
        ELSE s[i]]

NaN == "NaN"

\* Number.parseInt(s, 10)
ParseInt(s) ==
    LET t == TrimStart(s)
        negative == StartsWith(t, "-")
        digits == IF StartsWith(t, "-") \/ StartsWith(t, "+") THEN Tail(t) ELSE t
    IN  IF digits = <<>> \/ ~IsDigit(Head(digits)) THEN NaN
        ELSE IF negative THEN 0 - LeadingDigits(digits, 0) ELSE LeadingDigits(digits, 0)

----------------------------------------------------------------------------
(* gatherGitStatus and parseBranchHeader *)

BranchMarker == <<"#", "#", " ">>

UntrackedMarker == <<"?", "?">>

NoBranch == <<"(", "n", "o", " ", "b", "r", "a", "n", "c", "h", ")">>

UpstreamSeparator == <<".", ".", ".">>

AheadPrefix == <<"a", "h", "e", "a", "d", " ">>

BehindPrefix == <<"b", "e", "h", "i", "n", "d", " ">>

EmptyStatus ==
    [branch |-> Undefined, upstream |-> Undefined, ahead |-> Undefined, behind |-> Undefined,
     staged |-> <<>>, unstaged |-> <<>>, untracked |-> <<>>, conflicts |-> <<>>]

\* parseAheadBehind that reads the first token only
parseAheadBehindFirstToken(tokens, status) ==
    IF tokens = <<>> THEN status
    ELSE LET token == Head(tokens)
             s1 == IF HasPrefix(token, AheadPrefix)
                   THEN [status EXCEPT !.ahead = <<ParseInt(Slice(token, Len(AheadPrefix)))>>]
                   ELSE status
         IN  IF HasPrefix(token, BehindPrefix)
             THEN [s1 EXCEPT !.behind = <<ParseInt(Slice(token, Len(BehindPrefix)))>>]
             ELSE s1

\* the loop over the tokens of `ahead N, behind M`
RECURSIVE parseAheadBehind(_, _)
parseAheadBehind(tokens, status) ==
    IF tokens = <<>> THEN status
    ELSE LET token == Head(tokens)
             s1 == IF HasPrefix(token, AheadPrefix)
                   THEN [status EXCEPT !.ahead = <<ParseInt(Slice(token, Len(AheadPrefix)))>>]
                   ELSE status
             s2 == IF HasPrefix(token, BehindPrefix)
                   THEN [s1 EXCEPT !.behind = <<ParseInt(Slice(token, Len(BehindPrefix)))>>]
                   ELSE s1
         IN  parseAheadBehind(Tail(tokens), s2)

parseBranchHeader(header, status) ==
    LET parts == Split(header, <<" ", "[">>)
        headAndUpstream == parts[1]
        aheadBehind == Field(parts, 2)
        names == Split(headAndUpstream, UpstreamSeparator)
        head == names[1]
        upstream == Field(names, 2)
        s1 == IF head # <<>> /\ head # NoBranch THEN [status EXCEPT !.branch = head] ELSE status
        s2 == IF upstream # <<>> THEN [s1 EXCEPT !.upstream = upstream] ELSE s1
    IN  IF aheadBehind # <<>>
        THEN parseAheadBehind(Split(RemoveFirst(aheadBehind, <<"]">>), <<",", " ">>), s2)
        ELSE s2

\* changeCode.split(''): the character at place i, undefined beyond the end
CodeChar(changeCode, i) == IF i <= Len(changeCode) THEN changeCode[i] ELSE "undefined"

\* the body of the loop with the conflict's `continue` left out
statusLineWithoutContinue(line, status) ==
    IF HasPrefix(line, BranchMarker) THEN parseBranchHeader(Slice(line, 3), status)
    ELSE IF HasPrefix(line, UntrackedMarker)
    THEN [status EXCEPT !.untracked = Append(@, Trim(Slice(line, 3)))]
    ELSE LET changeCode == SliceTo(line, 2)
             filePath == Trim(Slice(line, 3))
             stageStatus == CodeChar(changeCode, 1)
             worktreeStatus == CodeChar(changeCode, 2)
             s0 == IF stageStatus = "U" \/ worktreeStatus = "U"
                   THEN [status EXCEPT !.conflicts =
                            Append(@, [path |-> filePath, detail |-> changeCode])]
                   ELSE status
             s1 == IF stageStatus # " " /\ stageStatus # "?"
                   THEN [s0 EXCEPT !.staged =
                            Append(@, [status |-> stageStatus, path |-> filePath])]
                   ELSE s0
         IN  IF worktreeStatus # " "
             THEN [s1 EXCEPT !.unstaged =
                      Append(@, [status |-> worktreeStatus, path |-> filePath])]
             ELSE s1

\* the body of the loop with `else if` before the test of worktreeStatus
statusLineStagedOrUnstaged(line, status) ==
    IF HasPrefix(line, BranchMarker) THEN parseBranchHeader(Slice(line, 3), status)
    ELSE IF HasPrefix(line, UntrackedMarker)
    THEN [status EXCEPT !.untracked = Append(@, Trim(Slice(line, 3)))]
    ELSE LET changeCode == SliceTo(line, 2)
             filePath == Trim(Slice(line, 3))
             stageStatus == CodeChar(changeCode, 1)
             worktreeStatus == CodeChar(changeCode, 2)
         IN  IF stageStatus = "U" \/ worktreeStatus = "U"
             THEN [status EXCEPT !.conflicts =
                      Append(@, [path |-> filePath, detail |-> changeCode])]
             ELSE IF stageStatus # " " /\ stageStatus # "?"
             THEN [status EXCEPT !.staged =
                      Append(@, [status |-> stageStatus, path |-> filePath])]
             ELSE IF worktreeStatus # " "
             THEN [status EXCEPT !.unstaged =
                      Append(@, [status |-> worktreeStatus, path |-> filePath])]
             ELSE status

\* the body of the loop `for (const line of lines)`
statusLine(line, status) ==
    IF HasPrefix(line, BranchMarker) THEN parseBranchHeader(Slice(line, 3), status)
    ELSE IF HasPrefix(line, UntrackedMarker)
    THEN [status EXCEPT !.untracked = Append(@, Trim(Slice(line, 3)))]
    ELSE LET changeCode == SliceTo(line, 2)
             filePath == Trim(Slice(line, 3))
             stageStatus == CodeChar(changeCode, 1)
             worktreeStatus == CodeChar(changeCode, 2)
         IN  IF stageStatus = "U" \/ worktreeStatus = "U"
             THEN [status EXCEPT !.conflicts =
                      Append(@, [path |-> filePath, detail |-> changeCode])]
             ELSE LET s1 == IF stageStatus # " " /\ stageStatus # "?"
                            THEN [status EXCEPT !.staged =
                                     Append(@, [status |-> stageStatus, path |-> filePath])]
                            ELSE status
                  IN  IF worktreeStatus # " "
                      THEN [s1 EXCEPT !.unstaged =
                               Append(@, [status |-> worktreeStatus, path |-> filePath])]
                      ELSE s1

RECURSIVE statusLines(_, _)
statusLines(lines, status) ==
    IF lines = <<>> THEN status
    ELSE statusLines(Tail(lines), statusLine(Head(lines), status))

\* stdout.split('\n').map((line) => line.trimEnd()).filter(Boolean)
RECURSIVE TrimmedLines(_)
TrimmedLines(lines) ==
    IF lines = <<>> THEN <<>>
    ELSE IF TrimEnd(Head(lines)) = <<>> THEN TrimmedLines(Tail(lines))
    ELSE <<TrimEnd(Head(lines))>> \o TrimmedLines(Tail(lines))

gatherGitStatus(stdout) == statusLines(TrimmedLines(SplitLines(stdout)), EmptyStatus)

----------------------------------------------------------------------------
(* gatherRecentCommits *)

\* `git log -n<limit>` prints the newest limit commits
runGitLog(limit) == SliceTo(repo.log, limit)

\* stdout.split('\n').filter(Boolean).map(...): a line is falsy when it is empty
RECURSIVE commitsOf(_)
commitsOf(lines) ==
    IF lines = <<>> THEN <<>>
    ELSE IF JoinTabs(Head(lines)) = <<>> THEN commitsOf(Tail(lines))
    ELSE <<[hash |-> Field(Head(lines), 1),
            author |-> Field(Head(lines), 2),
            relativeDate |-> Field(Head(lines), 3),
            summary |-> Field(Head(lines), 4)]>>
         \o commitsOf(Tail(lines))

gatherRecentCommits(stdout) == commitsOf(SplitLines(stdout))

----------------------------------------------------------------------------
(* evaluateHeuristics and the classification of the changed files *)

\* path.basename(p), p without a trailing separator
Basename(p) == Slice(p, LastIndexOf(p, <<"/">>))

\* path.extname(p): from the last '.' of the basename, empty when the basename
\* has no '.', or none but its first character, or is `..`
ExtName(p) ==
    LET base == Basename(p)
        dot == LastIndexOf(base, <<".">>)
    IN  IF dot <= 1 \/ base = <<".", ".">> THEN <<>> ELSE Slice(base, dot - 1)

\* /\.<word>\.[^.]+$/.test(s): `.<word>.` followed, up to the end, by one or
\* more characters that are not '.'
HasDottedSuffix(s, word) ==
    \E i \in 1..Len(s) :
        /\ OccursAt(s, <<".">> \o word \o <<".">>, i)
        /\ i + Len(word) + 1 < Len(s)
        /\ \A j \in (i + Len(word) + 2)..Len(s) : s[j] # "."

isTestFileChange(file) ==
    LET normalized == normalizePathForComparison(file.path)
    IN  \/ Includes(normalized, <<"/", "t", "e", "s", "t", "/">>)
        \/ Includes(normalized, <<"/", "t", "e", "s", "t", "s", "/">>)
        \/ Includes(normalized, <<"/", "_", "_", "t", "e", "s", "t", "s", "_", "_", "/">>)
        \/ HasDottedSuffix(normalized, <<"t", "e", "s", "t">>)
        \/ HasDottedSuffix(normalized, <<"s", "p", "e", "c">>)
        \/ EndsWith(normalized, <<"-", "t", "e", "s", "t", ".", "t", "s">>)
        \/ EndsWith(normalized, <<"-", "s", "p", "e", "c", ".", "t", "s">>)

codeExtensions ==
    { <<".", "t", "s">>,
      <<".", "t", "s", "x">>,
      <<".", "j", "s">>,
      <<".", "j", "s", "x">>,
      <<".", "m", "j", "s">>,
      <<".", "c", "j", "s">>,
      <<".", "p", "y">>,
      <<".", "j", "a", "v", "a">>,
      <<".", "k", "t">>,
      <<".", "g", "o">>,
      <<".", "r", "s">>,
      <<".", "c", "p", "p">>,
      <<".", "c">>,
      <<".", "c", "s">>,
      <<".", "r", "b">>,
      <<".", "p", "h", "p">>,
      <<".", "s", "w", "i", "f", "t">> }

isCodeFileChange(file) ==
    LET ext == ToLowerCase(ExtName(file.path))
    IN  IF ext = <<>> THEN FALSE
        ELSE ext \in codeExtensions /\ ~isTestFileChange(file)

configNames ==
    { <<"p", "a", "c", "k", "a", "g", "e", ".", "j", "s", "o", "n">>,
      <<"p", "a", "c", "k", "a", "g", "e", "-", "l", "o", "c", "k", ".", "j", "s", "o", "n">>,
      <<"p", "n", "p", "m", "-", "l", "o", "c", "k", ".", "y", "a", "m", "l">>,
      <<"y", "a", "r", "n", ".", "l", "o", "c", "k">>,
      <<"t", "s", "c", "o", "n", "f", "i", "g", ".", "j", "s", "o", "n">>,
      <<"p", "y", "p", "r", "o", "j", "e", "c", "t", ".", "t", "o", "m", "l">>,
      <<"r", "e", "q", "u", "i", "r", "e", "m", "e", "n", "t", "s", ".", "t", "x", "t">>,
      <<"g", "o", ".", "m", "o", "d">>,
      <<"g", "o", ".", "s", "u", "m">>,
      <<"p", "o", "m", ".", "x", "m", "l">>,
      <<"b", "u", "i", "l", "d", ".", "g", "r", "a", "d", "l", "e">>,
      <<"D", "o", "c", "k", "e", "r", "f", "i", "l", "e">> }

isConfigChange(file) ==
    LET basename == Basename(file.path)
        normalized == normalizePathForComparison(file.path)
    IN  IF basename \in configNames THEN TRUE
        ELSE IF EndsWith(basename, <<".", "e", "n", "v">>) \/ EndsWith(basename, <<".", "e", "n", "v", ".", "e", "x", "a", "m", "p", "l", "e">>) THEN TRUE
        ELSE \/ HasPrefix(normalized, <<".", "g", "i", "t", "h", "u", "b", "/", "w", "o", "r", "k", "f", "l", "o", "w", "s", "/">>)
             \/ Includes(normalized, <<"/", "c", "o", "n", "f", "i", "g", "/">>)
             \/ Includes(normalized, <<"/", "c", "o", "n", "f", "i", "g", "s", "/">>)
             \/ Includes(normalized, <<"/", "i", "n", "f", "r", "a", "s", "t", "r", "u", "c", "t", "u", "r", "e", "/">>)

\* (file.additions ?? 0) + (file.deletions ?? 0)
totalChurn(file) ==
    (IF file.additions = Null THEN 0 ELSE file.additions[1])
    + (IF file.deletions = Null THEN 0 ELSE file.deletions[1])

\* largeFiles with `>` for `>=`
largeFilesAboveThreshold(fs, a) ==
    SelectSeq(fs, LAMBDA file : ~file.isBinary /\ totalChurn(file) > a.largeFileThreshold)

largeFiles(fs, a) ==
    SelectSeq(fs, LAMBDA file : ~file.isBinary /\ totalChurn(file) >= a.largeFileThreshold)

\* missingTests without the test of testFiles.length
missingTestsWhateverTheTests(a, codeFiles, testFiles) ==
    a.requireTestsForCode /\ Len(codeFiles) # 0

\* args.requireTestsForCode && codeFiles.length && !testFiles.length
missingTests(a, codeFiles, testFiles) ==
    a.requireTestsForCode /\ Len(codeFiles) # 0 /\ Len(testFiles) = 0

PathsOf(fs) == [i \in 1..Len(fs) |-> fs[i].path]

\* a ReviewFinding, without its texts (summary, details, recommendation)
Finding(id, category, severity, affected) ==
    [id |-> id, category |-> category, severity |-> severity, affectedFiles |-> PathsOf(affected)]

HasFinding(findings, id) == \E i \in 1..Len(findings) : findings[i].id = id

\* deriveSuggestions reading the diff for the review suggestion: it is pushed
\* for every diff that is not empty
deriveSuggestionsByDiffAlone(findings, diff) ==
    (IF diff.fileCount # 0
     THEN <<"No heuristic findings detected. Proceed with focused manual review.">>
     ELSE <<>>)
    \o (IF diff.fileCount = 0
        THEN <<"Diff is empty. Confirm you staged or saved the desired changes.">>
        ELSE <<>>)
    \o (IF HasFinding(findings, "large-files")
        THEN <<"Highlight the riskiest regions in review description or break up the PR.">>
        ELSE <<>>)
    \o (IF HasFinding(findings, "missing-tests")
        THEN <<"Add regression tests or document why tests are not applicable.">>
        ELSE <<>>)

deriveSuggestions(findings, diff) ==
    (IF Len(findings) = 0
     THEN <<"No heuristic findings detected. Proceed with focused manual review.">>
     ELSE <<>>)
    \o (IF diff.fileCount = 0
        THEN <<"Diff is empty. Confirm you staged or saved the desired changes.">>
        ELSE <<>>)
    \o (IF HasFinding(findings, "large-files")
        THEN <<"Highlight the riskiest regions in review description or break up the PR.">>
        ELSE <<>>)
    \o (IF HasFinding(findings, "missing-tests")
        THEN <<"Add regression tests or document why tests are not applicable.">>
        ELSE <<>>)

\* evaluateHeuristics with `else if` between the four tests: the first
\* finding that fires suppresses the others
evaluateHeuristicsFirstFindingOnly(diff, a) ==
    LET codeFiles == SelectSeq(diff.files, isCodeFileChange)
        testFiles == SelectSeq(diff.files, isTestFileChange)
        binaryFiles == SelectSeq(diff.files, LAMBDA file : file.isBinary)
        large == largeFiles(diff.files, a)
        configFiles == SelectSeq(diff.files, isConfigChange)
        findings ==
            IF Len(large) # 0
            THEN <<Finding("large-files", "risk", "warn", large)>>
            ELSE IF missingTests(a, codeFiles, testFiles)
            THEN <<Finding("missing-tests", "testing", "warn", codeFiles)>>
            ELSE IF a.warnOnConfigChanges /\ Len(configFiles) # 0
            THEN <<Finding("config-edits", "dependencies", "info", configFiles)>>
            ELSE IF Len(binaryFiles) # 0
            THEN <<Finding("binary-files", "maintenance", "info", binaryFiles)>>
            ELSE <<>>
    IN  [metrics |-> [fileCount |-> diff.fileCount,
                      totalAdditions |-> diff.totalAdditions,
                      totalDeletions |-> diff.totalDeletions,
                      largeFiles |-> Len(large),
                      binaryFiles |-> Len(binaryFiles),
                      codeFiles |-> Len(codeFiles),
                      testFiles |-> Len(testFiles)],
         findings |-> findings,
         suggestions |-> deriveSuggestions(findings, diff),
         diff |-> diff]

evaluateHeuristics(diff, a) ==
    LET codeFiles == SelectSeq(diff.files, isCodeFileChange)
        testFiles == SelectSeq(diff.files, isTestFileChange)
        binaryFiles == SelectSeq(diff.files, LAMBDA file : file.isBinary)
        large == largeFiles(diff.files, a)
        configFiles == SelectSeq(diff.files, isConfigChange)
        findings ==
            (IF Len(large) # 0
             THEN <<Finding("large-files", "risk", "warn", large)>> ELSE <<>>)
            \o (IF missingTests(a, codeFiles, testFiles)
                THEN <<Finding("missing-tests", "testing", "warn", codeFiles)>> ELSE <<>>)
            \o (IF a.warnOnConfigChanges /\ Len(configFiles) # 0
                THEN <<Finding("config-edits", "dependencies", "info", configFiles)>> ELSE <<>>)
            \o (IF Len(binaryFiles) # 0
                THEN <<Finding("binary-files", "maintenance", "info", binaryFiles)>> ELSE <<>>)
    IN  [metrics |-> [fileCount |-> diff.fileCount,
                      totalAdditions |-> diff.totalAdditions,
                      totalDeletions |-> diff.totalDeletions,
                      largeFiles |-> Len(large),
                      binaryFiles |-> Len(binaryFiles),
                      codeFiles |-> Len(codeFiles),
                      testFiles |-> Len(testFiles)],
         findings |-> findings,
         suggestions |-> deriveSuggestions(findings, diff),
         diff |-> diff]

----------------------------------------------------------------------------
(* The inputs *)

P_a == <<"a">>
P_b == <<"b">>
P_s == <<"s">>
P_sa == <<"s", "/", "a">>
P_sa_backslash == <<"s", "\\", "a">>

T_M == <<"M">>
T_R100 == <<"R", "1", "0", "0">>

SeqsUpTo(S, n) == UNION {[1..k -> S] : k \in 0..n}

NameStatusLines ==
    { <<T_M, P_sa>>,
      <<T_M, P_sa_backslash>>,
      <<T_R100, P_a, P_b>> }

NumstatLines ==
    { <<<<"3">>, <<"1">>, P_sa>>,
      <<<<"-">>, <<"-">>, P_b>>,
      <<<<"2">>, <<"-">>, P_a>>,
      <<<<"0">>, <<"0">>, P_a, P_b>> }

\* the k-th line below a header: `index`, then hunk lines that all differ
BodyLine(k) ==
    IF k = 1 THEN TextLine(<<"i", "n", "d", "e", "x">>)
    ELSE TextLine(<<"+", DigitChars[(k \div 10) + 1], DigitChars[(k % 10) + 1]>>)

Segment(old, new, n) == <<HeaderLine(old, new)>> \o [k \in 1..n |-> BodyLine(k)]

RECURSIVE Concat(_)
Concat(ss) == IF ss = <<>> THEN <<>> ELSE Head(ss) \o Concat(Tail(ss))

\* a few patches for the runs that vary the name-status and numstat outputs
BasicPatches ==
    { <<>>,
      Segment(P_sa, P_sa, 3),
      Segment(P_a, P_b, 1) \o Segment(P_a, P_a, 2) }

Repos == [nameStatus : SeqsUpTo(NameStatusLines, MaxLines),
          numstat : SeqsUpTo(NumstatLines, MaxLines),
          patch : BasicPatches]

\* the bodies below a header: none, one line, and with the header exactly
\* maxPatchLines lines and one line more
PatchBodies ==
    { [k \in 1..n |-> BodyLine(k)] : n \in {0, 1, MinPatchLines - 1, MinPatchLines} }

PatchHeaders == { <<P_a, P_b>>, <<P_a, P_a>>, <<P_sa, P_sa>> }

PatchSegments == { <<HeaderLine(h[1], h[2])>> \o b : h \in PatchHeaders, b \in PatchBodies }

PatchOutputs == { Concat(ss) : ss \in SeqsUpTo(PatchSegments, MaxSegs) }

\* the name-status and numstat outputs of the runs that vary the patch
PatchDiffs ==
    { [nameStatus |-> << <<T_R100, P_a, P_b>>, <<T_M, P_sa>> >>,
       numstat |-> << <<<<"0">>, <<"0">>, P_a, P_b>>, <<<<"3">>, <<"1">>, P_sa>> >>],
      [nameStatus |-> << <<T_R100, P_a, P_b>> >>,
       numstat |-> << <<<<"2">>, <<"-">>, P_a>>, <<<<"-">>, <<"-">>, P_b>> >>] }

PatchRepos ==
    { [nameStatus |-> d.nameStatus, numstat |-> d.numstat, patch |-> p] :
          d \in PatchDiffs, p \in PatchOutputs }

\* the repositories of the runs that issue the request again
RepeatRepos == [nameStatus : SeqsUpTo(NameStatusLines, 1),
                numstat : SeqsUpTo(NumstatLines, 1),
                patch : BasicPatches]

ArgSet == [paths : {<<>>, <<P_s>>, <<P_sa>>},
           includePatch : BOOLEAN,
           maxPatchLines : {MinPatchLines}]

\* the repositories of the runs over a copy: a is a copy of b, and b is
\* changed too (git finds copies under diff.renames = copies). The numstat
\* output names the copy `b => a`, or as the name-status output does, or not
\* at all; the patch has the segment of a before that of b, as git prints them.
T_C100 == <<"C", "1", "0", "0">>

P_b_to_a == <<"b", " ", "=", ">", " ", "a">>

CopyRepos ==
    [nameStatus : { << <<T_C100, P_b, P_a>>, <<T_M, P_b>> >> },
     numstat : { << <<<<"0">>, <<"0">>, P_b_to_a>>, <<<<"3">>, <<"1">>, P_b>> >>,
                 << <<<<"0">>, <<"0">>, P_b, P_a>>, <<<<"3">>, <<"1">>, P_b>> >>,
                 << <<<<"3">>, <<"1">>, P_b>> >> },
     patch : { Segment(P_b, P_a, 1) \o Segment(P_b, P_b, 3),
               Segment(P_b, P_b, 3) }]

\* the path filter entry `./a`
P_dot_a == <<".", "/", "a">>

\* the repositories and the requests of the runs that vary the path filter:
\* no filter, a directory with a file written `./a`, two files, one file
FilterRepos ==
    [nameStatus : SeqsUpTo({<<T_M, P_sa>>, <<T_M, P_sa_backslash>>, <<T_R100, P_a, P_b>>}, MaxLines),
     numstat : SeqsUpTo({<<<<"3">>, <<"1">>, P_sa>>, <<<<"2">>, <<"-">>, P_a>>,
                         <<<<"0">>, <<"0">>, P_a, P_b>>}, MaxLines),
     patch : {Segment(P_sa, P_sa, 3)}]

FilterArgSet ==
    [paths : {<<>>, <<P_s, P_dot_a>>, <<P_b, P_sa>>, <<P_sa_backslash>>},
     includePatch : BOOLEAN,
     maxPatchLines : {MinPatchLines}]

----------------------------------------------------------------------------
(* The inputs of collect-context: what `git status --short --branch` and     *)
(* `git log` print                                                           *)

\* the decimal digits of n, as git prints a count
RECURSIVE Decimal(_)
Decimal(n) ==
    IF n < 10 THEN <<DigitChars[n + 1]>>
    ELSE Decimal(n \div 10) \o <<DigitChars[(n % 10) + 1]>>

B_m == <<"m">>
U_om == <<"o", "/", "m">>

\* the tokens `ahead N` and `behind M`, for the counts that are not zero
AheadBehindTokens(ahead, behind) ==
    (IF ahead = <<>> THEN <<>> ELSE <<AheadPrefix \o Decimal(ahead[1])>>)
    \o (IF behind = <<>> THEN <<>> ELSE <<BehindPrefix \o Decimal(behind[1])>>)

\* the line `## <branch>...<upstream> [ahead N, behind M]`, each part only if present
BranchLine(branch, upstream, ahead, behind) ==
    LET tokens == AheadBehindTokens(ahead, behind)
    IN  BranchMarker \o branch
        \o (IF upstream = <<>> THEN <<>> ELSE UpstreamSeparator \o upstream)
        \o (IF tokens = <<>> THEN <<>>
            ELSE IF Len(tokens) = 1 THEN <<" ", "[">> \o tokens[1] \o <<"]">>
            ELSE <<" ", "[">> \o tokens[1] \o <<",", " ">> \o tokens[2] \o <<"]">>)

\* the parts of the branch lines: a branch without upstream, and a branch with
\* an upstream that it is level with, ahead of, behind, or both
BranchParts ==
    {[branch |-> B_m, upstream |-> <<>>, ahead |-> <<>>, behind |-> <<>>]}
    \cup [branch : {B_m}, upstream : {U_om}, ahead : {<<>>, <<1>>, <<12>>}, behind : {<<>>, <<2>>}]

\* what git prints on a detached HEAD
DetachedLine == <<"#", "#", " ", "H", "E", "A", "D", " ", "(", "n", "o", " ", "b", "r", "a", "n", "c", "h", ")">>

BranchLines ==
    {BranchLine(p.branch, p.upstream, p.ahead, p.behind) : p \in BranchParts}
    \cup {DetachedLine}

StatusCodes == { <<"U", "U">>, <<"D", "U">>, <<"M", " ">>, <<" ", "M">>, <<"M", "M">>, <<"?", "?">> }

StatusPaths == {P_a, P_b, P_sa}

\* `XY <path>`
FileLine(code, path) == code \o <<" ">> \o path

\* the path a status line is about
PathOfLine(line) == Slice(line, 3)

FileLines == {FileLine(c, p) : c \in StatusCodes, p \in StatusPaths}

\* git prints one line per path
DistinctPaths(lines) ==
    \A i, j \in 1..Len(lines) : i # j => PathOfLine(lines[i]) # PathOfLine(lines[j])

\* the branch line, then the lines of the changed paths
StatusOutputs ==
    { <<b>> \o ls : b \in BranchLines,
                    ls \in {x \in SeqsUpTo(FileLines, MaxLines) : DistinctPaths(x)} }

Commit(hash, summary) == <<hash, <<"a">>, <<"1", " ", "d", "a", "y", " ", "a", "g", "o">>, summary>>

LogOutputs == { <<>>, <<Commit(<<"c", "2">>, <<"s", "2">>), Commit(<<"c", "1">>, <<"s", "1">>)>> }

ContextRepos == [status : StatusOutputs, log : LogOutputs]

CollectContextArgSet ==
    [includeGitStatus : BOOLEAN, includeRecentCommits : BOOLEAN, recentCommitLimit : {1, 5}]

----------------------------------------------------------------------------
(* The inputs of run-heuristics *)

P_code == <<"a", ".", "t", "s">>
P_test == <<"a", ".", "t", "e", "s", "t", ".", "t", "s">>
P_testdir == <<"s", "/", "t", "e", "s", "t", "/", "a", ".", "t", "s">>
\* a file of the directory `test`, and of the directory `config`, of the
\* repository root; a file of a directory `config` further down
P_roottest == <<"t", "e", "s", "t", "/", "a", ".", "t", "s">>
P_rootconfig == <<"c", "o", "n", "f", "i", "g", "/", "a", ".", "t", "s">>
P_config == <<"s", "/", "c", "o", "n", "f", "i", "g", "/", "a", ".", "t", "s">>

\* the bounds of z.number().int().min(50) of largeFileThreshold and of
\* includePatchContextLines
MinLargeFileThreshold == 50
MinPatchContextLines == 50

\* the threshold at its least value and one above
LargeFileThresholds == {MinLargeFileThreshold, MinLargeFileThreshold + 1}

\* files whose churn is the least threshold, one less and one more; a binary
\* file; a file with one count null
HeuristicNumstatLines ==
    { <<Decimal(25), Decimal(25), P_code>>,
      <<Decimal(MinLargeFileThreshold - 1), Decimal(0), P_code>>,
      <<Decimal(MinLargeFileThreshold), Decimal(1), P_test>>,
      <<Decimal(0), Decimal(MinLargeFileThreshold), P_testdir>>,
      <<<<"-">>, <<"-">>, P_b>>,
      <<Decimal(MinLargeFileThreshold), <<"-">>, P_b>>,
      <<Decimal(1), Decimal(1), P_roottest>>,
      <<Decimal(1), Decimal(1), P_rootconfig>>,
      <<Decimal(MinLargeFileThreshold), Decimal(0), P_config>> }

HeuristicRepos ==
    [nameStatus : {<<>>, << <<T_M, P_code>> >>},
     numstat : SeqsUpTo(HeuristicNumstatLines, MaxLines),
     patch : {<<>>, Segment(P_code, P_code, 3)}]

HeuristicArgSet ==
    [paths : {<<>>},
     largeFileThreshold : LargeFileThresholds,
     requireTestsForCode : BOOLEAN,
     includePatchContextLines : {MinPatchContextLines},
     warnOnConfigChanges : BOOLEAN]

----------------------------------------------------------------------------
(* The inputs of the runs over the three tools *)

SomeStatusOutputs ==
    { <<BranchLine(B_m, <<>>, <<>>, <<>>)>>,
      <<BranchLine(B_m, U_om, <<1>>, <<2>>), FileLine(<<"M", "M">>, P_a), FileLine(<<"U", "U">>, P_b)>> }

ToolRepos ==
    [nameStatus : SeqsUpTo(NameStatusLines, 1),
     numstat : SeqsUpTo(NumstatLines, 1),
     patch : BasicPatches,
     status : SomeStatusOutputs,
     log : LogOutputs]

\* a repository for the runs with several requests in flight
ConcurrentRepos ==
    [nameStatus : { << <<T_M, P_sa>> >> },
     numstat : { << <<<<"3">>, <<"1">>, P_sa>> >>,
                 << <<<<"3">>, <<"1">>, P_sa>>, <<<<"2">>, <<"-">>, P_a>> >> },
     patch : { Segment(P_sa, P_sa, 3) },
     status : { <<BranchLine(B_m, U_om, <<1>>, <<2>>), FileLine(<<"M", "M">>, P_a)>> },
     log : { <<Commit(<<"c", "1">>, <<"s", "1">>)>> }]

\* the requests of the runs with several requests in flight: diff-insights
\* with and without the patch and a path filter, collect-context with and
\* without the history, run-heuristics
ConcurrentRequests ==
    { [tool |-> "code-review.diff-insights",
       args |-> [paths |-> <<>>, includePatch |-> TRUE, maxPatchLines |-> MinPatchLines]],
      [tool |-> "code-review.diff-insights",
       args |-> [paths |-> <<P_sa>>, includePatch |-> TRUE, maxPatchLines |-> MinPatchLines]],
      [tool |-> "code-review.diff-insights",
       args |-> [paths |-> <<>>, includePatch |-> FALSE, maxPatchLines |-> MinPatchLines]],
      [tool |-> "code-review.collect-context",
       args |-> [includeGitStatus |-> TRUE, includeRecentCommits |-> TRUE,
                 recentCommitLimit |-> 1]],
      [tool |-> "code-review.collect-context",
       args |-> [includeGitStatus |-> TRUE, includeRecentCommits |-> FALSE,
                 recentCommitLimit |-> 1]],
      [tool |-> "code-review.run-heuristics",
       args |-> [paths |-> <<>>,
                 largeFileThreshold |-> MinLargeFileThreshold,
                 requireTestsForCode |-> TRUE,
                 includePatchContextLines |-> MinPatchContextLines,
                 warnOnConfigChanges |-> TRUE]] }

----------------------------------------------------------------------------
(* The handlers of the three tools. Every handler is one async function: pc   *)
(* names the await it is suspended on, and an action is the completion of    *)
(* that await with the synchronous code up to the next await or the return.  *)

ToolCollectContext == "code-review.collect-context"
ToolDiffInsights == "code-review.diff-insights"
ToolRunHeuristics == "code-review.run-heuristics"
NoTool == "none"

NoArgs == [paths |-> <<>>, includePatch |-> FALSE, maxPatchLines |-> MinPatchLines]

NoContext == <<>>

NoResponse == [kind |-> "none", text |-> <<>>, structuredContent |-> <<>>]

\* the return of a handler: structuredContent is the payload (the texts of
\* content, rendered from the payload, are left out)
Success(payload) ==
    [kind |-> "ok", text |-> <<>>, structuredContent |-> <<payload>>]

\* a catch block that returns what gatherDiffInsights had built so far
FailureWithPartialData(message) ==
    [kind |-> "error",
     text |-> <<tool, " failed: ", message>>,
     structuredContent |-> <<files>>]

\* the catch block: isError with the text `<tool> failed: ${message}`
Failure(message) ==
    [kind |-> "error",
     text |-> <<tool, " failed: ", message>>,
     structuredContent |-> <<>>]

\* the locals of a handler that has not been called
NoRequest ==
    [tool |-> NoTool, pc |-> "idle", args |-> NoArgs, nameStatus |-> <<>>, files |-> <<>>,
     totals |-> ZeroTotals, context |-> NoContext, invoked |-> <<>>, response |-> NoResponse]

\* the locals of the running handler
Locals ==
    [tool |-> tool, pc |-> pc, args |-> args, nameStatus |-> nameStatus, files |-> files,
     totals |-> totals, context |-> context, invoked |-> invoked, response |-> response]

\* the handler with the locals f runs
Running(f) ==
    /\ tool' = f.tool
    /\ pc' = f.pc
    /\ args' = f.args
    /\ nameStatus' = f.nameStatus
    /\ files' = f.files
    /\ totals' = f.totals
    /\ context' = f.context
    /\ invoked' = f.invoked
    /\ response' = f.response

Idle ==
    /\ tool = NoRequest.tool
    /\ pc = NoRequest.pc
    /\ args = NoRequest.args
    /\ nameStatus = NoRequest.nameStatus
    /\ files = NoRequest.files
    /\ totals = NoRequest.totals
    /\ context = NoRequest.context
    /\ invoked = NoRequest.invoked
    /\ response = NoRequest.response
    /\ history = <<>>
    /\ suspended = <<>>

Init == repo \in Repos /\ Idle

InitPatch == repo \in PatchRepos /\ Idle

InitRepeat == repo \in RepeatRepos /\ Idle

InitCollectContext == repo \in ContextRepos /\ Idle

InitRunHeuristics == repo \in HeuristicRepos /\ Idle

InitTools == repo \in ToolRepos /\ Idle

InitConcurrent == repo \in ConcurrentRepos /\ Idle

InitFilter == repo \in FilterRepos /\ Idle

InitCopy == repo \in CopyRepos /\ Idle

\* a diff-insights request arrives; normalizeDiffInsightsArgs
Call ==
    /\ pc = "idle"
    /\ \E a \in ArgSet : args' = a
    /\ tool' = ToolDiffInsights
    /\ pc' = "resolveWorkingDirectory"
    /\ UNCHANGED <<repo, nameStatus, files, totals, context, invoked, response, history,
                   suspended>>

\* a diff-insights request with a path subset filter arrives
CallFiltered ==
    /\ pc = "idle"
    /\ \E a \in FilterArgSet : args' = a
    /\ tool' = ToolDiffInsights
    /\ pc' = "resolveWorkingDirectory"
    /\ UNCHANGED <<repo, nameStatus, files, totals, context, invoked, response, history,
                   suspended>>

\* a collect-context request arrives; normalizeCollectContextArgs
CallCollectContext ==
    /\ pc = "idle"
    /\ \E a \in CollectContextArgSet : args' = a
    /\ tool' = ToolCollectContext
    /\ pc' = "resolveWorkingDirectory"
    /\ UNCHANGED <<repo, nameStatus, files, totals, context, invoked, response, history,
                   suspended>>

\* a run-heuristics request arrives; normalizeHeuristicArgs
CallRunHeuristics ==
    /\ pc = "idle"
    /\ \E a \in HeuristicArgSet : args' = a
    /\ tool' = ToolRunHeuristics
    /\ pc' = "resolveWorkingDirectory"
    /\ UNCHANGED <<repo, nameStatus, files, totals, context, invoked, response, history,
                   suspended>>

\* a request of any of the three tools arrives
CallAny ==
    /\ pc = "idle"
    /\ \E r \in ConcurrentRequests : tool' = r.tool /\ args' = r.args
    /\ pc' = "resolveWorkingDirectory"
    /\ UNCHANGED <<repo, nameStatus, files, totals, context, invoked, response, history,
                   suspended>>

\* the DiffInsightsArgs gatherDiffInsights is called with: those of the
\* diff-insights request, or the diffArgs run-heuristics builds
DiffArgs ==
    IF tool = ToolRunHeuristics
    THEN [paths |-> args.paths,
          includePatch |-> TRUE,
          maxPatchLines |-> args.includePatchContextLines]
    ELSE args

\* the awaited operation has ended well
Fulfilled(operation) ==
    invoked' = Append(invoked, [operation |-> operation, ok |-> TRUE, error |-> <<>>])

\* the awaited operation has ended with the Error whose message this is
Rejected(operation, message) ==
    invoked' = Append(invoked, [operation |-> operation, ok |-> FALSE, error |-> <<message>>])

\* a rejected await: the catch block builds the error result
Throw(operation, message) ==
    /\ Rejected(operation, message)
    /\ response' = Failure(message)
    /\ pc' = "done"
    /\ UNCHANGED <<repo, tool, args, nameStatus, files, totals, context, history, suspended>>

ResolveWorkingDirectory ==
    /\ pc = "resolveWorkingDirectory"
    /\ \/ /\ Fulfilled("resolveWorkingDirectory")
          /\ pc' = "detectRepositoryRoot"
          /\ UNCHANGED <<repo, tool, args, nameStatus, files, totals, context, response,
                         history, suspended>>
       \/ Throw("resolveWorkingDirectory", "ENOENT")

\* what `git rev-parse --show-toplevel` prints
RevParseOutput == <<"/", "r">> \o <<"\n">>

\* collect-context after the await of gatherGitStatus (statusRead) or before
\* it, with the context ctx: the next await, or the return
CollectContextGoesOn(ctx, statusRead) ==
    /\ context' = ctx
    /\ IF ~statusRead /\ args.includeGitStatus
       THEN pc' = "gatherGitStatus" /\ UNCHANGED response
       ELSE IF args.includeRecentCommits
       THEN pc' = "gatherRecentCommits" /\ UNCHANGED response
       ELSE pc' = "done" /\ response' = Success(ctx)

DetectRepositoryRoot ==
    /\ pc = "detectRepositoryRoot"
    /\ \/ /\ Fulfilled("git rev-parse")
          /\ IF tool = ToolCollectContext
             THEN CollectContextGoesOn([repositoryRoot |-> Trim(RevParseOutput),
                                        status |-> Undefined,
                                        recentCommits |-> Undefined], FALSE)
             ELSE pc' = "nameStatus" /\ UNCHANGED <<context, response>>
          /\ UNCHANGED <<repo, tool, args, nameStatus, files, totals, history, suspended>>
       \/ Throw("git rev-parse", "git rev-parse failed")

\* GatherGitStatus that goes on to the history reader whatever the arguments
GatherGitStatusThenRecentCommits ==
    /\ pc = "gatherGitStatus"
    /\ \/ /\ Fulfilled("git status")
          /\ context' = [context EXCEPT !.status = <<gatherGitStatus(repo.status)>>]
          /\ pc' = "gatherRecentCommits"
          /\ UNCHANGED <<repo, tool, args, nameStatus, files, totals, response, history,
                         suspended>>
       \/ Throw("git status", "git status failed")

\* context.status = await gatherGitStatus(repoRoot)
GatherGitStatus ==
    /\ pc = "gatherGitStatus"
    /\ \/ /\ Fulfilled("git status")
          /\ CollectContextGoesOn(
                 [context EXCEPT !.status = <<gatherGitStatus(repo.status)>>], TRUE)
          /\ UNCHANGED <<repo, tool, args, nameStatus, files, totals, history, suspended>>
       \/ Throw("git status", "git status failed")

\* context.recentCommits = await gatherRecentCommits(repoRoot, args.recentCommitLimit);
\* the return of the handler
GatherRecentCommits ==
    /\ pc = "gatherRecentCommits"
    /\ \/ LET ctx == [context EXCEPT !.recentCommits =
                         <<gatherRecentCommits(runGitLog(args.recentCommitLimit))>>]
          IN  /\ Fulfilled("git log")
              /\ context' = ctx
              /\ response' = Success(ctx)
              /\ pc' = "done"
              /\ UNCHANGED <<repo, tool, args, nameStatus, files, totals, history, suspended>>
       \/ Throw("git log", "git log failed")

\* RunNameStatus that goes on to the numstat invocation after a failure
RunNameStatusIgnoringFailure ==
    /\ pc = "nameStatus"
    /\ \/ /\ Fulfilled("git diff --name-status")
          /\ nameStatus' = runGitDiffNameStatus(DiffArgs)
          /\ pc' = "numstat"
          /\ UNCHANGED <<repo, tool, args, files, totals, context, response, history,
                         suspended>>
       \/ /\ Rejected("git diff --name-status", "git diff --name-status failed")
          /\ nameStatus' = <<>>
          /\ pc' = "numstat"
          /\ UNCHANGED <<repo, tool, args, files, totals, context, response, history,
                         suspended>>

\* const nameStatus = await runGitDiff(repoRoot, args, ['--name-status'])
RunNameStatus ==
    /\ pc = "nameStatus"
    /\ \/ /\ Fulfilled("git diff --name-status")
          /\ nameStatus' = runGitDiffNameStatus(DiffArgs)
          /\ pc' = "numstat"
          /\ UNCHANGED <<repo, tool, args, files, totals, context, response, history,
                         suspended>>
       \/ Throw("git diff --name-status", "git diff --name-status failed")

\* const numstat = await runGitDiff(...); then, without another await, the
\* parses, the merge and the totals; when no patch is asked for, the return
\* of gatherDiffInsights and of the handler
RunNumstat ==
    /\ pc = "numstat"
    /\ \/ LET merged == mergeDiffData(parseNameStatus(nameStatus),
                                      parseNumstat(runGitDiffNumstat(DiffArgs)), DiffArgs)
              sums == sumTotals(merged, ZeroTotals)
          IN  /\ Fulfilled("git diff --numstat")
              /\ files' = merged
              /\ totals' = sums
              /\ IF DiffArgs.includePatch
                 THEN pc' = "patch" /\ UNCHANGED response
                 ELSE pc' = "done" /\ response' = Success(DiffInsights(merged, sums))
              /\ UNCHANGED <<repo, tool, args, nameStatus, context, history, suspended>>
       \/ Throw("git diff --numstat", "git diff --numstat failed")

\* const patchText = await runGitDiff(..., ['--patch', '--unified=3']);
\* attachPatchSnippets; the return of gatherDiffInsights; then the return of
\* the diff-insights handler, or evaluateHeuristics and the return of the
\* run-heuristics handler
RunPatch ==
    /\ pc = "patch"
    /\ \/ LET attached == attachPatchSnippets(files, runGitDiffPatch(DiffArgs),
                                              DiffArgs.maxPatchLines)
              insights == DiffInsights(attached, totals)
          IN  /\ Fulfilled("git diff --patch")
              /\ files' = attached
              /\ response' = IF tool = ToolRunHeuristics
                             THEN Success(evaluateHeuristics(insights, args))
                             ELSE Success(insights)
              /\ pc' = "done"
              /\ UNCHANGED <<repo, tool, args, nameStatus, totals, context, history, suspended>>
       \/ Throw("git diff --patch", "git diff --patch failed")

\* the client sends the same request again; the repository has not changed.
\* Every call of the handler has its own args, nameStatus, files and totals:
\* what the variables still hold of the finished call is not read again.
Repeat ==
    /\ pc = "done"
    /\ Len(history) + 1 < MaxCalls
    /\ history' = Append(history, response)
    /\ response' = NoResponse
    /\ invoked' = <<>>
    /\ pc' = "resolveWorkingDirectory"
    /\ UNCHANGED <<repo, tool, args, nameStatus, files, totals, context, suspended>>

\* another request arrives while the running handler is suspended on an await
\* (or has returned): a new call of a handler, with locals of its own
Accept ==
    /\ pc # "idle"
    /\ Len(suspended) + 1 < MaxRequests
    /\ suspended' = Append(suspended, Locals)
    /\ Running(NoRequest)
    /\ UNCHANGED <<repo, history>>

\* Switch with one `files` for all the handlers
SwitchSharingFiles ==
    /\ pc # "idle"
    /\ \E i \in 1..Len(suspended) :
          /\ suspended[i].pc # "done"
          /\ suspended' = [suspended EXCEPT ![i] = Locals]
          /\ Running([suspended[i] EXCEPT !.files = files])
    /\ UNCHANGED <<repo, history>>

\* the event loop: the running handler is suspended on its await, and the
\* await of another handler completes next
Switch ==
    /\ pc # "idle"
    /\ \E i \in 1..Len(suspended) :
          /\ suspended[i].pc # "done"
          /\ suspended' = [suspended EXCEPT ![i] = Locals]
          /\ Running(suspended[i])
    /\ UNCHANGED <<repo, history>>

Next ==
    \/ Call
    \/ ResolveWorkingDirectory
    \/ DetectRepositoryRoot
    \/ RunNameStatus
    \/ RunNumstat
    \/ RunPatch

NextRepeat ==
    \/ Next
    \/ Repeat

NextCollectContext ==
    \/ CallCollectContext
    \/ ResolveWorkingDirectory
    \/ DetectRepositoryRoot
    \/ GatherGitStatus
    \/ GatherRecentCommits

NextRunHeuristics ==
    \/ CallRunHeuristics
    \/ ResolveWorkingDirectory
    \/ DetectRepositoryRoot
    \/ RunNameStatus
    \/ RunNumstat
    \/ RunPatch

NextTools ==
    \/ Call
    \/ CallCollectContext
    \/ CallRunHeuristics
    \/ ResolveWorkingDirectory
    \/ DetectRepositoryRoot
    \/ GatherGitStatus
    \/ GatherRecentCommits
    \/ RunNameStatus
    \/ RunNumstat
    \/ RunPatch

NextConcurrent ==
    \/ CallAny
    \/ ResolveWorkingDirectory
    \/ DetectRepositoryRoot
    \/ GatherGitStatus
    \/ GatherRecentCommits
    \/ RunNameStatus
    \/ RunNumstat
    \/ RunPatch
    \/ Accept
    \/ Switch

NextFilter ==
    \/ CallFiltered
    \/ ResolveWorkingDirectory
    \/ DetectRepositoryRoot
    \/ RunNameStatus
    \/ RunNumstat
    \/ RunPatch

\* one request, over the name-status and numstat outputs
Spec == Init /\ [][Next]_vars

\* one request, over the unified patches
SpecPatch == InitPatch /\ [][Next]_vars

\* the same request issued MaxCalls times
SpecRepeat == InitRepeat /\ [][NextRepeat]_vars

\* one collect-context request, over the status and log outputs
SpecCollectContext == InitCollectContext /\ [][NextCollectContext]_vars

\* one run-heuristics request, over diffs around the large-file threshold
SpecRunHeuristics == InitRunHeuristics /\ [][NextRunHeuristics]_vars

\* one request of any of the three tools
SpecTools == InitTools /\ [][NextTools]_vars

\* MaxRequests requests of any tools, in flight together
SpecConcurrent == InitConcurrent /\ [][NextConcurrent]_vars

\* one diff-insights request, over the path filters
SpecFilter == InitFilter /\ [][NextFilter]_vars

\* one diff-insights request, over the diffs with a copy
SpecCopy == InitCopy /\ [][Next]_vars

----------------------------------------------------------------------------
(* What the claims speak of *)

\* the handler returned a DiffInsights
Returned == pc = "done" /\ response.kind = "ok"

Insights == response.structuredContent[1]

\* the two parses of the request
ChangeTypeMap == parseNameStatus(nameStatus)

NumstatEntries == parseNumstat(runGitDiffNumstat(args))

NumstatPaths == {NumstatEntries[i].path : i \in 1..Len(NumstatEntries)}

RECURSIVE SumOf(_, _)
SumOf(counts, S) ==
    IF S = {} THEN 0
    ELSE LET i == CHOOSE x \in S : TRUE
         IN  counts[i] + SumOf(counts, S \ {i})

\* sum of the non-null additions (deletions) of the records of fs at the indices S
SumAdditions(fs, S) ==
    SumOf([i \in 1..Len(fs) |-> IF fs[i].additions = Null THEN 0 ELSE fs[i].additions[1]],
          {i \in S : fs[i].additions # Null})

SumDeletions(fs, S) ==
    SumOf([i \in 1..Len(fs) |-> IF fs[i].deletions = Null THEN 0 ELSE fs[i].deletions[1]],
          {i \in S : fs[i].deletions # Null})

----------------------------------------------------------------------------
\* C1: in every DiffInsights returned, with or without a path filter,
\* totalAdditions is the sum of additions over the records whose additions is
\* non-null, totalDeletions the sum of deletions over the records whose
\* deletions is non-null, and fileCount the number of records of files.
C1_TotalsAreSums ==
    Returned =>
        /\ Insights.totalAdditions = SumAdditions(Insights.files, 1..Len(Insights.files))
        /\ Insights.totalDeletions = SumDeletions(Insights.files, 1..Len(Insights.files))
        /\ Insights.fileCount = Len(Insights.files)

\* a result with a record of null additions, a record with additions alone,
\* and totals that are not zero
C1_Witness ==
    /\ Returned
    /\ \E i, j \in 1..Len(Insights.files) :
          /\ Insights.files[i].additions = Null
          /\ Insights.files[j].additions # Null
          /\ Insights.files[j].deletions = Null
    /\ Insights.totalAdditions > 0
    /\ Insights.fileCount >= 2

\* C2 (as claimed): every path of the name-status parse and every path of the
\* numstat parse appears exactly once in the files returned; a path of the
\* name-status parse alone appears with zero counts and isBinary = TRUE.
C2_EveryPathOnce ==
    Returned =>
        \A p \in MapKeys(ChangeTypeMap) \cup NumstatPaths :
            /\ Cardinality({i \in 1..Len(Insights.files) : Insights.files[i].path = p}) = 1
            /\ p \notin NumstatPaths =>
                   \A i \in 1..Len(Insights.files) :
                       Insights.files[i].path = p =>
                           /\ Insights.files[i].additions = <<0>>
                           /\ Insights.files[i].deletions = <<0>>
                           /\ Insights.files[i].isBinary

\* C3 (as claimed): no two records denote the same path under the normalized
\* form, and a name-status entry and a numstat entry whose paths are equal
\* under that form are correlated into one record.
C3_OneRecordPerNormalizedPath ==
    Returned =>
        /\ \A i, j \in 1..Len(Insights.files) :
               normalizePathForComparison(Insights.files[i].path)
                   = normalizePathForComparison(Insights.files[j].path) => i = j
        /\ \A k \in 1..Len(ChangeTypeMap), e \in 1..Len(NumstatEntries) :
               normalizePathForComparison(ChangeTypeMap[k].key)
                   = normalizePathForComparison(NumstatEntries[e].path)
               => \A i \in 1..Len(Insights.files) :
                      normalizePathForComparison(Insights.files[i].path)
                          = normalizePathForComparison(NumstatEntries[e].path)
                      => /\ Insights.files[i].changeType = ChangeTypeMap[k].value.changeType
                         /\ Insights.files[i].additions = NumstatEntries[e].additions
                         /\ Insights.files[i].deletions = NumstatEntries[e].deletions

NoChurnBinary(f) ==
    /\ f.isBinary
    /\ \/ f.additions = Null /\ f.deletions = Null
       \/ f.path \notin NumstatPaths

\* C5 (as claimed): every record with isBinary = TRUE contributes zero to both
\* totals: the totals are the sums over the records that are not binary.
C5_BinaryContributesZero ==
    Returned =>
        LET others == {i \in 1..Len(Insights.files) : ~Insights.files[i].isBinary}
        IN  /\ Insights.totalAdditions = SumAdditions(Insights.files, others)
            /\ Insights.totalDeletions = SumDeletions(Insights.files, others)

\* C5 (amended): a record with isBinary = TRUE whose counts are both null, or
\* which only the name-status output lists, contributes zero to both totals;
\* a record with exactly one null count contributes its other count.
C5_FullyBinaryContributesZero ==
    Returned =>
        LET others == {i \in 1..Len(Insights.files) : ~NoChurnBinary(Insights.files[i])}
        IN  /\ Insights.totalAdditions = SumAdditions(Insights.files, others)
            /\ Insights.totalDeletions = SumDeletions(Insights.files, others)
            /\ \A i \in 1..Len(Insights.files) :
                   LET f == Insights.files[i]
                   IN  (f.isBinary /\ ~NoChurnBinary(f)) =>
                           /\ (f.additions = Null) # (f.deletions = Null)
                           /\ Insights.totalAdditions >=
                                  (IF f.additions = Null THEN 0 ELSE f.additions[1])
                           /\ Insights.totalDeletions >=
                                  (IF f.deletions = Null THEN 0 ELSE f.deletions[1])

\* a result with a `-  -` record, a record only the name-status output lists
\* and a record with additions and null deletions that the total counts
C5_Witness ==
    /\ Returned
    /\ \E i, j, k \in 1..Len(Insights.files) :
          /\ Insights.files[i].additions = Null /\ Insights.files[i].deletions = Null
          /\ Insights.files[j].isBinary /\ Insights.files[j].path \notin NumstatPaths
          /\ Insights.files[k].isBinary
          /\ Insights.files[k].additions # Null
          /\ Insights.files[k].additions[1] > 0
          /\ Insights.totalAdditions = Insights.files[k].additions[1]

\* C6 (as claimed): every record's changeType is one of the letters A, M, D,
\* R, C, whatever status field the name-status line carries.
C6_SingleLetterChangeType ==
    Returned =>
        \A i \in 1..Len(Insights.files) :
            Insights.files[i].changeType \in {<<"A">>, <<"M">>, <<"D">>, <<"R">>, <<"C">>}

----------------------------------------------------------------------------
\* C7: two diff-insights calls with the same arguments, between which the
\* repository is unchanged, return identical results: whenever the handler
\* returns a DiffInsights, every earlier call that returned one returned the
\* same files in the same order, the same counts, totals and patches.
C7_SameResultAgain ==
    Returned =>
        \A k \in 1..Len(history) :
            history[k].kind = "ok" => history[k] = response

\* a second call that returned two records, one with a patch, after a first
\* call that returned too
C7_Witness ==
    /\ Returned
    /\ Len(history) >= 1
    /\ history[1].kind = "ok"
    /\ Insights.fileCount >= 2
    /\ Insights.totalAdditions > 0
    /\ \E i \in 1..Len(Insights.files) : Insights.files[i].patch # NoPatch

----------------------------------------------------------------------------
(* The unified patch of the request, and its per-file segments as the        *)
(* claims describe them                                                      *)

ReturnedWithPatch == Returned /\ args.includePatch

PatchText == runGitDiffPatch(args)

HeaderIndices == {i \in 1..Len(PatchText) : PatchText[i].hdr}

\* the header line at h and every line up to the next header or the end
SegmentAt(h) ==
    LET later == {i \in HeaderIndices : i > h}
        end == IF later = {} THEN Len(PatchText)
               ELSE (CHOOSE i \in later : \A j \in later : i <= j) - 1
    IN  SubSeq(PatchText, h, end)

\* the k-th header index
RECURSIVE NthHeader(_, _)
NthHeader(k, S) ==
    LET least == CHOOSE i \in S : \A j \in S : i <= j
    IN  IF k = 1 THEN least ELSE NthHeader(k - 1, S \ {least})

\* a text and the same text with a final newline have the same lines
WithoutFinalEmptyLine(lines) ==
    IF lines # <<>> /\ Last(lines) = TextLine(<<>>) THEN Front(lines) ELSE lines

Segments == splitUnifiedDiff(PatchText)

\* the segments that files.find gives to record i, in the order of the patch
SegmentsOf(i) ==
    {k \in 1..Len(Segments) :
         FindFile(Insights.files, normalizePathForComparison(Segments[k].keyPath)) = i}

Greatest(S) == CHOOSE k \in S : \A j \in S : j <= k

\* C8 (as claimed): each segment produced by splitting the patch is its
\* header line followed by every line up to the next header or the end of
\* the text, and a patch that is not truncated is attached verbatim.
C8_SegmentIsHeaderToNextHeader ==
    ReturnedWithPatch =>
        /\ Len(Segments) = Cardinality(HeaderIndices)
        /\ \A k \in 1..Len(Segments) :
               WithoutFinalEmptyLine(Segments[k].patch)
                   = SegmentAt(NthHeader(k, HeaderIndices))
        /\ \A i \in 1..Len(Insights.files) :
               (/\ Insights.files[i].patch # NoPatch
                /\ Last(Insights.files[i].patch) # TruncationMarker)
               => \E h \in HeaderIndices :
                      WithoutFinalEmptyLine(Insights.files[i].patch) = SegmentAt(h)

\* C9 (as claimed): when the segment of a record has more lines than
\* maxPatchLines the attached patch is its first maxPatchLines lines and one
\* truncation-marker line; when it has at most maxPatchLines lines the full
\* segment is attached with no marker.
C9_TruncatedAtMaxPatchLines ==
    ReturnedWithPatch =>
        \A i \in 1..Len(Insights.files) :
            SegmentsOf(i) # {} =>
                LET segment == SegmentAt(NthHeader(Greatest(SegmentsOf(i)), HeaderIndices))
                IN  IF Len(segment) > args.maxPatchLines
                    THEN Insights.files[i].patch
                             = Append(SubSeq(segment, 1, args.maxPatchLines), TruncationMarker)
                    ELSE WithoutFinalEmptyLine(Insights.files[i].patch) = segment

IsRenameOrCopy(type) == StartsWith(type, "R") \/ StartsWith(type, "C")

\* the record of a rename or copy line has the line's old and new path
RenameRecordsKeepBothPaths ==
    \A k \in 1..Len(ChangeTypeMap) :
        IsRenameOrCopy(ChangeTypeMap[k].value.changeType) =>
            /\ Len(args.paths) = 0 =>
                   \E i \in 1..Len(Insights.files) :
                       Insights.files[i].path = ChangeTypeMap[k].key
            /\ \A i \in 1..Len(Insights.files) :
                   Insights.files[i].path = ChangeTypeMap[k].key =>
                       /\ Insights.files[i].previousPath = ChangeTypeMap[k].value.previousPath
                       /\ Insights.files[i].changeType = ChangeTypeMap[k].value.changeType

SamePath(p, q) == normalizePathForComparison(p) = normalizePathForComparison(q)

\* the segment's path is the current or the previous path of f
NamesRecord(segment, f) ==
    \/ SamePath(segment.keyPath, f.path)
    \/ f.previousPath # <<>> /\ SamePath(segment.keyPath, f.previousPath)

\* C10 (as claimed): a rename or copy line yields a record with the old path
\* as previousPath and the new path as path, and a segment is matched to that
\* record whenever its path equals, after normalization, the record's current
\* path or its previousPath.
C10_SegmentMatchedByEitherPath ==
    ReturnedWithPatch =>
        /\ RenameRecordsKeepBothPaths
        /\ \A i \in 1..Len(Insights.files), k \in 1..Len(Segments) :
               (/\ IsRenameOrCopy(Insights.files[i].changeType)
                /\ NamesRecord(Segments[k], Insights.files[i]))
               => k \in SegmentsOf(i)

\* C10 (amended): a rename or copy line yields a record with the old path as
\* previousPath and the new path as path; a segment is matched to the first
\* record of files whose current path or previousPath equals the segment's
\* path after normalization, hence to the rename record when no record before
\* it does; the patch of a record is taken from the last segment matched to it.
C10_SegmentMatchedToFirstRecordNamed ==
    ReturnedWithPatch =>
        /\ RenameRecordsKeepBothPaths
        /\ \A i \in 1..Len(Insights.files) :
               LET f == Insights.files[i]
                   mine == {k \in 1..Len(Segments) :
                                /\ NamesRecord(Segments[k], f)
                                /\ \A j \in 1..(i - 1) :
                                       ~NamesRecord(Segments[k], Insights.files[j])}
               IN  IF mine = {}
                   THEN f.patch = NoPatch
                   ELSE f.patch = Snippet(Segments[Greatest(mine)].patch, args.maxPatchLines)

\* a rename record that took its patch from a segment that cites its old path
C10_Witness ==
    /\ ReturnedWithPatch
    /\ \E i \in 1..Len(Insights.files), k \in 1..Len(Segments) :
          /\ IsRenameOrCopy(Insights.files[i].changeType)
          /\ Insights.files[i].previousPath # <<>>
          /\ SamePath(Segments[k].keyPath, Insights.files[i].previousPath)
          /\ ~SamePath(Segments[k].keyPath, Insights.files[i].path)
          /\ Insights.files[i].patch = Segments[k].patch

----------------------------------------------------------------------------
(* What the claims about run-heuristics speak of *)

\* the run-heuristics handler returned a HeuristicReport
ReturnedReport == tool = ToolRunHeuristics /\ pc = "done" /\ response.kind = "ok"

Report == response.structuredContent[1]

\* the changed files of the report
Changed == Report.diff.files

\* the places in Changed of the files that are not binary and whose additions
\* and deletions add up to at least threshold
AtOrAbove(threshold) ==
    {i \in 1..Len(Changed) :
        /\ ~Changed[i].isBinary
        /\ Changed[i].additions[1] + Changed[i].deletions[1] >= threshold}

\* the affectedFiles of the findings of the report with this id
AffectedBy(id) ==
    {Report.findings[k].affectedFiles :
        k \in {j \in 1..Len(Report.findings) : Report.findings[j].id = id}}

HasCodeExtension(file) == ToLowerCase(ExtName(file.path)) \in codeExtensions

\* C11: with requireTestsForCode the report has a `missing-tests` finding if
\* and only if some changed file is a code file that is not a test file and no
\* changed file is a test file; without requireTestsForCode it never has one;
\* and a report of the same diff under any other largeFileThreshold has the
\* finding exactly when this one has it.
C11_MissingTestsIffCodeWithoutTests ==
    ReturnedReport =>
        LET code == \E i \in 1..Len(Changed) :
                        HasCodeExtension(Changed[i]) /\ ~isTestFileChange(Changed[i])
            test == \E i \in 1..Len(Changed) : isTestFileChange(Changed[i])
            found == HasFinding(Report.findings, "missing-tests")
        IN  /\ args.requireTestsForCode => (found <=> (code /\ ~test))
            /\ ~args.requireTestsForCode => ~found
            /\ \A t \in LargeFileThresholds :
                   HasFinding(evaluateHeuristics(Report.diff,
                                  [args EXCEPT !.largeFileThreshold = t]).findings,
                              "missing-tests") <=> found

\* a report with the `missing-tests` finding and no `large-files` finding, of a
\* diff that has a `large-files` finding under the other threshold
C11_Witness ==
    /\ ReturnedReport
    /\ HasFinding(Report.findings, "missing-tests")
    /\ ~HasFinding(Report.findings, "large-files")
    /\ \E t \in LargeFileThresholds : AtOrAbove(t) # {}

----------------------------------------------------------------------------
(* What the claims about collect-context speak of *)

\* the collect-context handler returned a RepoContext
ReturnedContext == tool = ToolCollectContext /\ pc = "done" /\ response.kind = "ok"

Context == response.structuredContent[1]

\* the RepoContext returned has a status
ReturnedStatus == ReturnedContext /\ Context.status # Undefined

Status == Context.status[1]

\* the lines git printed below the branch line
PrintedFileLines == {repo.status[i] : i \in 2..Len(repo.status)}

\* the two-character code of a printed line
CodeOfLine(line) == SubSeq(line, 1, 2)

HasUnmergedMarker(line) == line[1] = "U" \/ line[2] = "U"

IsUntrackedLine(line) == CodeOfLine(line) = UntrackedMarker

\* the paths of a list of {status, path} or {path, detail} entries
EntryPaths(entries) == {entries[k].path : k \in 1..Len(entries)}

Entries(entries) == {entries[k] : k \in 1..Len(entries)}

\* C13: a path whose two-character status code has 'U' in either position is
\* in `conflicts`, with the code as detail, and is neither in `staged` nor in
\* `unstaged`.
C13_UnmergedOnlyInConflicts ==
    ReturnedStatus =>
        \A line \in PrintedFileLines :
            HasUnmergedMarker(line) =>
                /\ [path |-> PathOfLine(line), detail |-> CodeOfLine(line)]
                       \in Entries(Status.conflicts)
                /\ PathOfLine(line) \notin EntryPaths(Status.staged)
                /\ PathOfLine(line) \notin EntryPaths(Status.unstaged)

\* a status with a conflict whose code has 'U' in the second position only,
\* next to a path that is both staged and unstaged
C13_Witness ==
    /\ ReturnedStatus
    /\ \E line \in PrintedFileLines :
          /\ line[1] # "U" /\ line[2] = "U"
          /\ PathOfLine(line) \in EntryPaths(Status.conflicts)
    /\ Status.staged # <<>>
    /\ Status.unstaged # <<>>

\* C14: for a line that is neither the branch line, nor untracked, nor a
\* conflict, the path is in `staged`, with the first character of the code, if
\* and only if that character is neither blank nor '?', and in `unstaged`,
\* with the second character, if and only if that character is not blank; the
\* path of an untracked line is in `untracked` and in no other list.
C14_StagedAndUnstagedByCharacter ==
    ReturnedStatus =>
        \A line \in PrintedFileLines :
            LET path == PathOfLine(line)
            IN  /\ (~IsUntrackedLine(line) /\ ~HasUnmergedMarker(line)) =>
                       /\ path \in EntryPaths(Status.staged) <=> line[1] \notin {" ", "?"}
                       /\ path \in EntryPaths(Status.unstaged) <=> line[2] # " "
                       /\ \A e \in Entries(Status.staged) : e.path = path => e.status = line[1]
                       /\ \A e \in Entries(Status.unstaged) : e.path = path => e.status = line[2]
                /\ IsUntrackedLine(line) =>
                       /\ \E k \in 1..Len(Status.untracked) : Status.untracked[k] = path
                       /\ path \notin EntryPaths(Status.staged)
                       /\ path \notin EntryPaths(Status.unstaged)
                       /\ path \notin EntryPaths(Status.conflicts)

\* a status of a line with both characters set, whose path is in both lists,
\* and of an untracked line
C14_Witness ==
    /\ ReturnedStatus
    /\ \E line \in PrintedFileLines :
          /\ line[1] = "M" /\ line[2] = "M"
          /\ PathOfLine(line) \in EntryPaths(Status.staged)
          /\ PathOfLine(line) \in EntryPaths(Status.unstaged)
    /\ Status.untracked # <<>>

\* C15: when the branch line is `## HEAD (no branch)`, the RepoStatus has no
\* branch.
C15_DetachedLeavesBranchUnset ==
    (ReturnedStatus /\ repo.status[1] = DetachedLine) => Status.branch = Undefined

\* C16: for the branch line `## <branch>...<upstream> [ahead N, behind M]`,
\* with each of the upstream, the ahead count and the behind count present or
\* not, the status has that branch, and has upstream, ahead and behind set to
\* the part of the line when the part is present and unset when it is not.
C16_BranchLineParts ==
    ReturnedStatus =>
        \A p \in BranchParts :
            repo.status[1] = BranchLine(p.branch, p.upstream, p.ahead, p.behind) =>
                /\ Status.branch = p.branch
                /\ Status.upstream = p.upstream
                /\ Status.ahead = p.ahead
                /\ Status.behind = p.behind

\* the status of `## m...o/m [behind 2]`: behind is 2 and ahead is unset
C16_Witness ==
    /\ ReturnedStatus
    /\ repo.status[1] = BranchLine(B_m, U_om, <<>>, <<2>>)
    /\ Status.upstream = U_om
    /\ Status.behind = <<2>>
    /\ Status.ahead = Undefined

----------------------------------------------------------------------------
(* What the claims about failures and the order of the invocations speak of *)

\* the places in the log of the awaited operations that were rejected
Failed == {i \in 1..Len(invoked) : ~invoked[i].ok}

OperationsOf(log) == [i \in 1..Len(log) |-> log[i].operation]

\* the invocations of `git diff` among the operations awaited
GitDiffOperations ==
    SelectSeq(OperationsOf(invoked),
              LAMBDA o : o \in {"git diff --name-status", "git diff --numstat",
                                "git diff --patch"})

\* the invocations of one diff-insights computation, in their order
ExpectedGitDiffs(a) ==
    <<"git diff --name-status", "git diff --numstat">>
    \o (IF a.includePatch THEN <<"git diff --patch">> ELSE <<>>)

\* C17: for each of the three tools, when the resolution of the working
\* directory, the location of the repository or an invocation of git fails,
\* the handler has returned: its result is flagged as an error, its text is
\* `<tool-name> failed: <cause>` with the message of the failure as the cause,
\* and it has no structured payload.
C17_FailureIsAnErrorResult ==
    \A i \in Failed :
        /\ pc = "done"
        /\ response.kind = "error"
        /\ response.text = <<tool, " failed: ", invoked[i].error[1]>>
        /\ response.structuredContent = <<>>

\* collect-context whose `git log` failed after the status had been read into
\* the context
C17_Witness ==
    /\ tool = ToolCollectContext
    /\ pc = "done"
    /\ Failed # {}
    /\ invoked[Len(invoked)].operation = "git log"
    /\ context.status # Undefined
    /\ response.kind = "error"

\* C18: one diff-insights computation invokes git diff for the name-status,
\* then the numstat, then, only when the patch is asked for, the patch, each
\* once; an invocation is awaited (pc is at it) only when every operation
\* before it has ended well; and when one fails the request has ended with an
\* error result, after no further invocation.
C18_InvocationsInOrder ==
    /\ IsPrefix(GitDiffOperations, ExpectedGitDiffs(args))
    /\ \A i \in Failed : i = Len(invoked) /\ pc = "done" /\ response.kind = "error"
    /\ response.kind = "ok" => GitDiffOperations = ExpectedGitDiffs(args)
    /\ pc = "numstat" => GitDiffOperations = <<"git diff --name-status">> /\ Failed = {}
    /\ pc = "patch" =>
           /\ GitDiffOperations = <<"git diff --name-status", "git diff --numstat">>
           /\ Failed = {}
           /\ args.includePatch

\* a request with the patch asked for whose numstat invocation failed after
\* the name-status invocation had ended well
C18_Witness ==
    /\ tool = ToolDiffInsights
    /\ args.includePatch
    /\ pc = "done"
    /\ GitDiffOperations = <<"git diff --name-status", "git diff --numstat">>
    /\ Failed = {Len(invoked)}
    /\ response.kind = "error"

\* C20: collect-context resolves the working directory, then locates the
\* repository root, then reads the status if and only if includeGitStatus,
\* then the history if and only if includeRecentCommits; a successful result
\* has repositoryRoot, has `status` exactly when includeGitStatus and has
\* `recentCommits` exactly when includeRecentCommits.
C20_CollectContextSteps ==
    tool = ToolCollectContext =>
        LET expected == <<"resolveWorkingDirectory", "git rev-parse">>
                        \o (IF args.includeGitStatus THEN <<"git status">> ELSE <<>>)
                        \o (IF args.includeRecentCommits THEN <<"git log">> ELSE <<>>)
        IN  /\ IsPrefix(OperationsOf(invoked), expected)
            /\ ReturnedContext =>
                   /\ OperationsOf(invoked) = expected
                   /\ Context.repositoryRoot = Trim(RevParseOutput)
                   /\ Context.status # Undefined <=> args.includeGitStatus
                   /\ Context.recentCommits # Undefined <=> args.includeRecentCommits

\* a result without status and with the recent commits, of a request with
\* includeGitStatus false and includeRecentCommits true
C20_Witness ==
    /\ ReturnedContext
    /\ ~args.includeGitStatus
    /\ args.includeRecentCommits
    /\ Context.status = Undefined
    /\ Context.recentCommits # Undefined
    /\ Len(Context.recentCommits[1]) > 0

----------------------------------------------------------------------------
(* What the claim about concurrent requests speaks of: what a request        *)
(* computes when it is the only one, from its arguments and the repository  *)

\* the DiffInsightsArgs of the request with the locals f
DiffArgsOf(f) ==
    IF f.tool = ToolRunHeuristics
    THEN [paths |-> f.args.paths,
          includePatch |-> TRUE,
          maxPatchLines |-> f.args.includePatchContextLines]
    ELSE f.args

AloneFiles(a) ==
    mergeDiffData(parseNameStatus(runGitDiffNameStatus(a)),
                  parseNumstat(runGitDiffNumstat(a)), a)

AloneInsights(a) ==
    LET merged == AloneFiles(a)
    IN  DiffInsights(IF a.includePatch
                     THEN attachPatchSnippets(merged, runGitDiffPatch(a), a.maxPatchLines)
                     ELSE merged,
                     sumTotals(merged, ZeroTotals))

AloneContext(a) ==
    [repositoryRoot |-> Trim(RevParseOutput),
     status |-> IF a.includeGitStatus THEN <<gatherGitStatus(repo.status)>> ELSE Undefined,
     recentCommits |-> IF a.includeRecentCommits
                       THEN <<gatherRecentCommits(runGitLog(a.recentCommitLimit))>>
                       ELSE Undefined]

AlonePayload(f) ==
    IF f.tool = ToolCollectContext THEN AloneContext(f.args)
    ELSE IF f.tool = ToolRunHeuristics
    THEN evaluateHeuristics(AloneInsights(DiffArgsOf(f)), f.args)
    ELSE AloneInsights(f.args)

\* the request with the locals f is where it would be, with the locals and
\* the response it would have, had no other request been served: a success
\* carries the payload computed from its arguments and the repository, an
\* error is the failure of its own last operation
AsIfAlone(f) ==
    /\ f.pc = "done" <=> f.response.kind # "none"
    /\ f.response.kind = "ok" =>
           /\ f.response.structuredContent = <<AlonePayload(f)>>
           /\ \A i \in 1..Len(f.invoked) : f.invoked[i].ok
    /\ f.response.kind = "error" =>
           /\ f.invoked # <<>>
           /\ {i \in 1..Len(f.invoked) : ~f.invoked[i].ok} = {Len(f.invoked)}
           /\ f.response.text = <<f.tool, " failed: ", f.invoked[Len(f.invoked)].error[1]>>
           /\ f.response.structuredContent = <<>>
    /\ f.pc = "numstat" => f.nameStatus = runGitDiffNameStatus(DiffArgsOf(f))
    /\ f.pc = "patch" => f.files = AloneFiles(DiffArgsOf(f))
    /\ f.pc = "gatherRecentCommits" =>
           f.context = [AloneContext(f.args) EXCEPT !.recentCommits = Undefined]

\* C19: however the requests in flight interleave at their awaits, every
\* request has the locals, and returns the response, that it has when it is
\* served alone on the same repository; so a request that ends in an error
\* changes nothing of the requests served with it or after it.
C19_RequestsAsIfAlone ==
    /\ AsIfAlone(Locals)
    /\ \A i \in 1..Len(suspended) : AsIfAlone(suspended[i])

\* a request has ended in an error at its patch invocation, having merged its
\* own files, while another request, with other files merged, is suspended at
\* its patch invocation
C19_Witness ==
    /\ Len(suspended) = 1
    /\ suspended[1].pc = "patch"
    /\ suspended[1].files # <<>>
    /\ pc = "done"
    /\ response.kind = "error"
    /\ invoked[Len(invoked)].operation = "git diff --patch"
    /\ files # <<>>
    /\ files # suspended[1].files

----------------------------------------------------------------------------
\* the numstat entry a record is built from: the last one of its path
NumstatEntryOf(p) ==
    NumstatEntries[CHOOSE i \in 1..Len(NumstatEntries) :
                       /\ NumstatEntries[i].path = p
                       /\ \A j \in (i + 1)..Len(NumstatEntries) : NumstatEntries[j].path # p]

----------------------------------------------------------------------------
\* the orders a tool may list n lines in
ListingOrders(n) == {p \in [1..n -> 1..n] : \A i, j \in 1..n : p[i] = p[j] => i = j}

Permuted(lines, p) == [i \in 1..Len(lines) |-> lines[p[i]]]

\* the paths of files, had the tool listed the lines of its name-status output
\* in the order p and those of its numstat output in the order q
PathsListedAs(p, q) ==
    PathsOf(mergeDiffData(parseNameStatus(Permuted(nameStatus, p)),
                          parseNumstat(Permuted(runGitDiffNumstat(args), q)), args))

\* C22: the files of every diff result are in non-decreasing order of path
\* (the order of localeCompare), with a path filter and without, and the order
\* is the same in whatever order the tool lists the paths in its name-status
\* and numstat outputs.
C22_SortedWhateverTheListing ==
    Returned =>
        /\ \A i, j \in 1..Len(Insights.files) :
               i < j => LocaleCompare(Insights.files[i].path, Insights.files[j].path) <= 0
        /\ \A p \in ListingOrders(Len(nameStatus)) :
               \A q \in ListingOrders(Len(runGitDiffNumstat(args))) :
                   PathsListedAs(p, q) = PathsOf(Insights.files)

\* a filtered result of two records or more whose paths the numstat output
\* lists in descending order
C22_Witness ==
    /\ Returned
    /\ Len(args.paths) > 0
    /\ Len(Insights.files) >= 2
    /\ \E i, j \in 1..Len(NumstatEntries) :
          /\ i < j
          /\ LocaleCompare(NumstatEntries[i].path, NumstatEntries[j].path) > 0
          /\ \E k, l \in 1..Len(Insights.files) :
                /\ k < l
                /\ Insights.files[k].path = NumstatEntries[j].path
                /\ Insights.files[l].path = NumstatEntries[i].path

----------------------------------------------------------------------------
\* the merged records, before the path filter
Merged ==
    SortByPath(MapValues(mergeNameStatusOnly(ChangeTypeMap,
                   mergeNumstatEntries(NumstatEntries, ChangeTypeMap, <<>>))), <<>>)

WithoutPatch(fs) == [i \in 1..Len(fs) |-> [fs[i] EXCEPT !.patch = NoPatch]]

\* the normalized path of f is the normalized form of an entry of the filter
InFilter(f) ==
    \E k \in 1..Len(args.paths) :
        normalizePathForComparison(f.path) = normalizePathForComparison(args.paths[k])

\* C23: with a path subset filter the files returned are exactly the merged
\* records whose normalized path (backslashes to '/', posix-normalized, case
\* kept) is the normalized form of an entry of the filter, in the merged
\* order; without a filter no merged record is removed.
C23_FilterByNormalizedPath ==
    Returned =>
        WithoutPatch(Insights.files) =
            IF Len(args.paths) > 0 THEN SelectSeq(Merged, InFilter) ELSE Merged

\* a filtered result that keeps a record whose raw path is no entry of the
\* filter and removes another merged record
C23_Witness ==
    /\ Returned
    /\ Len(args.paths) > 0
    /\ \E i \in 1..Len(Insights.files) :
          \A k \in 1..Len(args.paths) : Insights.files[i].path # args.paths[k]
    /\ \E j \in 1..Len(Merged) : ~InFilter(Merged[j])

----------------------------------------------------------------------------
\* the directory segments of a path: all the segments but the file name
DirectorySegments(p) == Front(Split(normalizePathForComparison(p), <<"/">>))

HasDirectorySegment(p, name) ==
    \E k \in 1..Len(DirectorySegments(p)) : DirectorySegments(p)[k] = name

\* the file name has a test or spec suffix: `.test.<ext>`, `.spec.<ext>`,
\* `-test.ts`, `-spec.ts`
HasTestSuffix(p) ==
    \/ HasDottedSuffix(Basename(p), <<"t", "e", "s", "t">>)
    \/ HasDottedSuffix(Basename(p), <<"s", "p", "e", "c">>)
    \/ EndsWith(Basename(p), <<"-", "t", "e", "s", "t", ".", "t", "s">>)
    \/ EndsWith(Basename(p), <<"-", "s", "p", "e", "c", ".", "t", "s">>)

\* a test file as the claim C24 describes it
InTestDirectoryOrNamedTest(p) ==
    \/ HasDirectorySegment(p, <<"t", "e", "s", "t">>)
    \/ HasDirectorySegment(p, <<"t", "e", "s", "t", "s">>)
    \/ HasDirectorySegment(p, <<"_", "_", "t", "e", "s", "t", "s", "_", "_">>)
    \/ HasTestSuffix(p)

\* C24 (as claimed): a changed file with a directory segment `test`, `tests`
\* or `__tests__` at any depth, the first segment included, or with a test or
\* spec suffix in its name, is counted in metrics.testFiles; metrics.codeFiles
\* counts the files with a recognized extension that are not test files; no
\* file is counted in both.
C24_TestFilesByDirectoryOrSuffix ==
    ReturnedReport =>
        LET tests == {i \in 1..Len(Changed) : InTestDirectoryOrNamedTest(Changed[i].path)}
            code == {i \in 1..Len(Changed) : HasCodeExtension(Changed[i]) /\ i \notin tests}
        IN  /\ Report.metrics.testFiles >= Cardinality(tests)
            /\ Report.metrics.codeFiles = Cardinality(code)
            /\ \A i \in 1..Len(Changed) :
                   ~(isCodeFileChange(Changed[i]) /\ isTestFileChange(Changed[i]))

----------------------------------------------------------------------------
\* the file name ends with an environment-file suffix
HasEnvSuffix(p) ==
    \/ EndsWith(Basename(p), <<".", "e", "n", "v">>)
    \/ EndsWith(Basename(p), <<".", "e", "n", "v", ".", "e", "x", "a", "m", "p", "l", "e">>)

\* the path has the directory `.github/workflows` at some depth
HasWorkflowSegment(p) ==
    \E k \in 1..(Len(DirectorySegments(p)) - 1) :
        /\ DirectorySegments(p)[k] = <<".", "g", "i", "t", "h", "u", "b">>
        /\ DirectorySegments(p)[k + 1] = <<"w", "o", "r", "k", "f", "l", "o", "w", "s">>

\* a config file as the claim C25 describes it
NamedOrPlacedAsConfig(p) ==
    \/ Basename(p) \in configNames
    \/ HasEnvSuffix(p)
    \/ HasWorkflowSegment(p)
    \/ HasDirectorySegment(p, <<"c", "o", "n", "f", "i", "g">>)
    \/ HasDirectorySegment(p, <<"c", "o", "n", "f", "i", "g", "s">>)
    \/ HasDirectorySegment(p, <<"i", "n", "f", "r", "a", "s", "t", "r", "u", "c", "t", "u", "r", "e">>)

\* C25 (as claimed): a changed file is a config file whenever its name is a
\* recognized manifest, lockfile or build descriptor, or ends with an
\* environment-file suffix, or its path has a CI-workflow, `config`, `configs`
\* or `infrastructure` directory segment at any depth, the first segment
\* included; the report has the `config-edits` finding if and only if
\* warnOnConfigChanges is true and some changed file is a config file, and the
\* finding lists exactly the config files.
C25_ConfigEditsListsConfigFiles ==
    ReturnedReport =>
        LET config == {i \in 1..Len(Changed) : NamedOrPlacedAsConfig(Changed[i].path)}
        IN  /\ HasFinding(Report.findings, "config-edits")
                   <=> (args.warnOnConfigChanges /\ config # {})
            /\ \A listed \in AffectedBy("config-edits") :
                   {listed[j] : j \in 1..Len(listed)} = {Changed[i].path : i \in config}

----------------------------------------------------------------------------
\* the ids of the findings, in the order of the report
FindingIds == [k \in 1..Len(Report.findings) |-> Report.findings[k].id]

FindingOrder == <<"large-files", "missing-tests", "config-edits", "binary-files">>

\* the trigger of each finding, read from the changed files and the arguments
Triggered(id) ==
    CASE id = "large-files" -> AtOrAbove(args.largeFileThreshold) # {}
      [] id = "missing-tests" ->
             /\ args.requireTestsForCode
             /\ \E i \in 1..Len(Changed) : isCodeFileChange(Changed[i])
             /\ \A i \in 1..Len(Changed) : ~isTestFileChange(Changed[i])
      [] id = "config-edits" ->
             /\ args.warnOnConfigChanges
             /\ \E i \in 1..Len(Changed) : isConfigChange(Changed[i])
      [] id = "binary-files" -> \E i \in 1..Len(Changed) : Changed[i].isBinary

\* C26: the findings of every report are the findings whose own trigger
\* holds, each once, in the order large-files, missing-tests, config-edits,
\* binary-files: a finding is present if and only if its trigger holds,
\* whichever others are present; binary-files is present if and only if some
\* record has isBinary = TRUE.
C26_FindingsIndependentAndOrdered ==
    ReturnedReport =>
        FindingIds = SelectSeq(FindingOrder, Triggered)

\* a report with the four findings
C26_Witness ==
    /\ ReturnedReport
    /\ FindingIds = FindingOrder
    /\ \A k \in 1..4 : Triggered(FindingOrder[k])

\* the four suggestions
ProceedSuggestion == "No heuristic findings detected. Proceed with focused manual review."
EmptyDiffSuggestion == "Diff is empty. Confirm you staged or saved the desired changes."
LargeFilesSuggestion == "Highlight the riskiest regions in review description or break up the PR."
MissingTestsSuggestion == "Add regression tests or document why tests are not applicable."

Suggests(text) == \E k \in 1..Len(Report.suggestions) : Report.suggestions[k] = text

\* C27: the suggestions of a report follow from its findings and from whether
\* the diff is empty: the manual-review suggestion is present iff there are
\* no findings, the empty-diff suggestion iff fileCount is 0, the large-files
\* and missing-tests suggestions iff the finding of that id is present, in
\* that order and each once; an empty diff yields exactly the manual-review
\* and the empty-diff suggestions, in that order.
C27_SuggestionsFromFindings ==
    ReturnedReport =>
        /\ Report.suggestions =
               SelectSeq(<<ProceedSuggestion, EmptyDiffSuggestion,
                           LargeFilesSuggestion, MissingTestsSuggestion>>,
                   LAMBDA text :
                       CASE text = ProceedSuggestion -> Len(Report.findings) = 0
                         [] text = EmptyDiffSuggestion -> Report.metrics.fileCount = 0
                         [] text = LargeFilesSuggestion ->
                                HasFinding(Report.findings, "large-files")
                         [] text = MissingTestsSuggestion ->
                                HasFinding(Report.findings, "missing-tests"))
        /\ Report.metrics.fileCount = 0 =>
               Report.suggestions = <<ProceedSuggestion, EmptyDiffSuggestion>>

\* the report of an empty diff, with its two suggestions
C27_Witness ==
    /\ ReturnedReport
    /\ Len(Changed) = 0
    /\ Report.metrics.fileCount = 0
    /\ Report.suggestions = <<ProceedSuggestion, EmptyDiffSuggestion>>

----------------------------------------------------------------------------
\* the records as gatherDiffInsights holds them before the patch is attached
BeforeAttachment == mergeDiffData(ChangeTypeMap, NumstatEntries, args)

\* no segment of the patch names the record f
Unnamed(f) == \A k \in 1..Len(Segments) : ~NamesRecord(Segments[k], f)

\* the patch invocation has ended well and the handler has returned
PatchRead ==
    /\ pc = "done"
    /\ invoked # <<>>
    /\ Last(invoked).operation = "git diff --patch"
    /\ Last(invoked).ok

\* C28: patch attachment changes the patch field of the records and nothing
\* else: the records are those of the merge, in the same order, with the same
\* path, changeType, counts, isBinary and previousPath; fileCount and the
\* totals are those of the merge; a record no segment names has no patch, and
\* an empty patch text leaves every record as it was; no segment makes the
\* request fail.
C28_AttachmentChangesPatchOnly ==
    /\ PatchRead => response.kind = "ok"
    /\ ReturnedWithPatch =>
           /\ WithoutPatch(Insights.files) = BeforeAttachment
           /\ Insights.fileCount = Len(BeforeAttachment)
           /\ Insights.totalAdditions
                  = SumAdditions(BeforeAttachment, 1..Len(BeforeAttachment))
           /\ Insights.totalDeletions
                  = SumDeletions(BeforeAttachment, 1..Len(BeforeAttachment))
           /\ \A i \in 1..Len(Insights.files) :
                  Unnamed(Insights.files[i]) => Insights.files[i].patch = NoPatch
           /\ IsBlankPatch(PatchText) => Insights.files = BeforeAttachment

\* a result of two records, one with the patch of a segment and one that no
\* segment names, after a patch with a segment that names no record
C28_Witness ==
    /\ ReturnedWithPatch
    /\ \E i, j \in 1..Len(Insights.files) :
          /\ Insights.files[i].patch # NoPatch
          /\ Unnamed(Insights.files[j])
          /\ Insights.files[j].patch = NoPatch
    /\ \E k \in 1..Len(Segments) :
          \A i \in 1..Len(Insights.files) : ~NamesRecord(Segments[k], Insights.files[i])

----------------------------------------------------------------------------
\* C29 (as claimed): after patch attachment, a record whose current path is
\* the path of a segment of the patch has a patch taken from a segment of that
\* path, and not from the segment of another file, also when another record
\* has that path as its previousPath.
C29_PatchFromOwnSegment ==
    ReturnedWithPatch =>
        \A i \in 1..Len(Insights.files) :
            LET f == Insights.files[i]
                own == {k \in 1..Len(Segments) : SamePath(Segments[k].keyPath, f.path)}
            IN  own # {} =>
                    \E k \in own : f.patch = Snippet(Segments[k].patch, args.maxPatchLines)

----------------------------------------------------------------------------
(* The documentation resource server, another program of the repository. Its *)
(* runs use the same variables: repo is the disk its process reads, tool the  *)
(* method of the request, args its params, pc the await the handler is        *)
(* suspended on, invoked the awaits that have ended, response what the        *)
(* handler returns.                                                           *)

MethodReadResource == "resources/read"

\* process.cwd()
WorkingDirectory == <<"/", "w">>

\* path.join(a, b): the two joined with '/', then normalized; an empty b adds
\* nothing
PathJoin(a, b) == IF b = <<>> THEN PosixNormalize(a) ELSE PosixNormalize(a \o <<"/">> \o b)

docsDir == PathJoin(WorkingDirectory, <<"d", "o", "c", "s">>)

DocsScheme == <<"d", "o", "c", "s", ":", "/">>

InvalidParamsCode == -32602

ResourceNotFoundCode == -32000

\* the files of the disk: two under docs, one beside it
F_guide == [path |-> <<"/", "w", "/", "d", "o", "c", "s", "/", "a", ".", "m", "d">>, content |-> "guide"]
F_nested == [path |-> <<"/", "w", "/", "d", "o", "c", "s", "/", "s", "/", "a", ".", "m", "d">>, content |-> "nested"]
F_secret == [path |-> <<"/", "w", "/", "s", "e", "c", "r", "e", "t", ".", "m", "d">>, content |-> "secret"]

DocsDisks == [disk : SUBSET {F_guide, F_nested, F_secret}]

\* the uris requested: files under docs, a file that is missing, uris with
\* `..` segments, uris without the prefix, the prefix alone
Uris ==
    { <<"d", "o", "c", "s", ":", "/", "a", ".", "m", "d">>,
      <<"d", "o", "c", "s", ":", "/", "s", "/", "a", ".", "m", "d">>,
      <<"d", "o", "c", "s", ":", "/", "b", ".", "m", "d">>,
      <<"d", "o", "c", "s", ":", "/", ".", ".", "/", "s", "e", "c", "r", "e", "t", ".", "m", "d">>,
      <<"d", "o", "c", "s", ":", "/", "s", "/", ".", ".", "/", "a", ".", "m", "d">>,
      <<"f", "i", "l", "e", ":", "/", "a", ".", "m", "d">>,
      <<"a", ".", "m", "d">>,
      <<"d", "o", "c", "s", ":", "/">> }

\* { error: { code, message } }
ErrorReply(code, message) ==
    [error |-> <<[code |-> code, message |-> message]>>, content |-> <<>>]

\* { content: [{ type: "text", text }] }
ContentReply(text) ==
    [error |-> <<>>, content |-> <<[type |-> "text", text |-> text]>>]

InitDocs == repo \in DocsDisks /\ Idle

\* a resources/read request arrives: the test of the prefix, and the return
\* of the error or the call of fs.readFile
ReadResource ==
    /\ pc = "idle"
    /\ tool' = MethodReadResource
    /\ \E uri \in Uris :
          /\ args' = [uri |-> uri]
          /\ IF ~HasPrefix(uri, DocsScheme)
             THEN /\ response' = ErrorReply(InvalidParamsCode, <<"Invalid resource URI">>)
                  /\ pc' = "done"
             ELSE /\ pc' = "readFile"
                  /\ UNCHANGED response
    /\ UNCHANGED <<repo, nameStatus, files, totals, context, invoked, history, suspended>>

\* const content = await fs.readFile(filePath, "utf-8"): the content of the
\* file at filePath, or the catch block when the read is rejected (no such
\* file, a directory, a file that may not be read)
ReadFile ==
    /\ pc = "readFile"
    /\ LET fileName == Slice(args.uri, Len(DocsScheme))
           filePath == PathJoin(docsDir, fileName)
       IN  \/ \E f \in repo.disk :
                 /\ f.path = filePath
                 /\ Fulfilled("fs.readFile")
                 /\ response' = ContentReply(f.content)
           \/ /\ Rejected("fs.readFile", "ENOENT")
              /\ response' = ErrorReply(ResourceNotFoundCode,
                                        <<"Resource not found: ", args.uri>>)
    /\ pc' = "done"
    /\ UNCHANGED <<repo, tool, args, nameStatus, files, totals, context, history, suspended>>

NextDocs ==
    \/ ReadResource
    \/ ReadFile

\* one resources/read request, over the disks and the uris
SpecDocs == InitDocs /\ [][NextDocs]_vars

\* the resources/read handler has returned
ReadReturned == tool = MethodReadResource /\ pc = "done"

\* the file lies in the docs directory
InsideDocs(f) == HasPrefix(f.path, docsDir \o <<"/">>)

\* C30 (as claimed): a resources/read request returns an error object, of
\* code -32602 when the uri lacks the prefix `docs:/` and of code -32000 when
\* the file cannot be read, or the content of a file inside the docs
\* directory; never the content of a file outside it.
C30_ReadsInsideDocsOnly ==
    ReadReturned =>
        \/ /\ response.content = <<>>
           /\ Len(response.error) = 1
           /\ response.error[1].code = InvalidParamsCode
           /\ ~HasPrefix(args.uri, DocsScheme)
        \/ /\ response.content = <<>>
           /\ Len(response.error) = 1
           /\ response.error[1].code = ResourceNotFoundCode
           /\ HasPrefix(args.uri, DocsScheme)
        \/ /\ response.error = <<>>
           /\ \E f \in repo.disk :
                 /\ InsideDocs(f)
                 /\ response.content = <<[type |-> "text", text |-> f.content]>>

====
